---- MODULE Spec2Model ----
(***************************************************************************)
(* Model of the tunnel client of htmx-ssh-games:                           *)
(*   src/entrypoint.rs  ssh_entrypoint (key loading, the outer loop, the   *)
(*                      backoff closure handed to connect)                 *)
(*   src/ssh.rs         TcpForwardSession::connect / start_forwarding /    *)
(*                      close                                              *)
(* One asynchronous task runs ssh_entrypoint; pc is its position.  Every   *)
(* answer of the remote host, of the file system and of the terminal is a  *)
(* nondeterministic choice.                                                *)
(***************************************************************************)
EXTENDS Integers, Sequences, FiniteSets, TLC

(* ------------------------------ bounds --------------------------------- *)

\* outer-loop iterations of ssh_entrypoint that the model follows
MaxCycles == 2
\* messages one start_forwarding call takes from the auxiliary channel
MaxMsgs == 2
\* exit statuses are 0..MaxExitCode
MaxExitCode == 1
\* calls of a backoff closure examined on their own
MaxCalls == 8
\* forwarded connections the remote opens
MaxBridges == 2
\* requests the remote sends over all forwarded connections
MaxReqs == 2

\* calls of the handlers of the Checkboxes service in progress at once
MaxCbInFlight == 2

\* tasks wait_and_start_new_puzzle has spawned that are pending at once
MaxTasks == 2
\* calls of the handlers of the Multipaint service in progress at once
\* between two of their locks
MaxInFlight == 1
\* timer tasks of earlier puzzles that are past their sleep at once
MaxStale == 1

\* rows and columns of the boards populate_board is given, all of them
\* up to these sizes
MaxRows == 2
MaxCols == 3

ExitCodes == 0..MaxExitCode
SessionIds == 1..MaxCycles
\* the channels of forwarded connections the model follows
BridgeIds == 1..MaxBridges

(* ------------------------------ state ---------------------------------- *)

VARIABLES
    pc,                \* position of the ssh_entrypoint task
    ret,               \* what ssh_entrypoint returned ("none" while running)
    request_pty,       \* parameter request_pty: TRUE for Some(cmd)
    cycle,             \* outer-loop iterations begun so far
    reconnect_attempt, \* entrypoint.rs:52, captured by the backoff closure
    attempts,          \* ssh.rs:48
    sleeping,          \* the duration of the sleep in progress (0: none)
    events,            \* what the current connect call did, in order
    connect_result,    \* outcome of the current connect call
    prev_consumed,     \* delays yielded by the schedules of earlier iterations
    sessions,          \* session id -> state of that Tunnel Session
    close_attempts,    \* session id -> calls of close on it
    close_result,      \* what the latest call of close returned
    fwd_step,          \* requests start_forwarding has sent, in order
    fwd_result,        \* outcome of the current start_forwarding call
    fwd_code,          \* its exit code when fwd_result = "Ok"
    wait_msgs,         \* messages the wait loop of this call has taken
    stdout,            \* data this start_forwarding call wrote to stdout
    stderr,            \* data this start_forwarding call wrote to stderr
    secret_key,        \* entrypoint.rs:43-47: how far the key was loaded
    last_msg,          \* what channel.wait() returned last in this call
    pending_failure,   \* a failure since the latest connection attempt
                       \* that no sleep has followed yet
    session_task,      \* the task russh runs for the current session
    bridge,            \* channel -> state of its Channel Bridge task
    chan_closed,       \* channel -> the channel was closed under the bridge
    chan_in,           \* channel -> requests sent by the remote, not read
    served,            \* channel -> requests its bridge gave the Router
    chan_out,          \* channel -> responses its bridge wrote to it
    conn_info,         \* channel -> the address its bridge's service was
                       \* made for (ConnectInfo of every request on it)
    host_key,          \* the key the server presented on the connection
                       \* in its handshake, and check_server_key's verdict
    board_in,          \* arguments of a populate_board call
    board_out,         \* what that call gave
    cb_usize_bits,     \* Checkboxes: the width of usize of the build
    cb_checkboxes,     \* Checkboxes: AppState.checkboxes, as the set of
                       \* the indices of the bits that are set
    cb_handlers,       \* Checkboxes: the handler calls in progress
    cb_last,           \* Checkboxes: id -> the latest request that wrote it
    cb_resp,           \* Checkboxes: the latest response
    np_state,          \* Multipaint: Nonogram.state
    np_checkboxes,     \* Multipaint: Nonogram.checkboxes
    np_puzzle,         \* Multipaint: the value of the puzzle watch channel
                       \* (the number of the puzzle in the catalogue)
    np_timer,          \* Multipaint: the timer task that
                       \* Nonogram.timer.join_handle refers to (the one
                       \* started with the current puzzle)
    np_stale_timers,   \* Multipaint: how many timer tasks of earlier
                       \* puzzles are still running
    np_tasks,          \* Multipaint: the tasks wait_and_start_new_puzzle
                       \* has spawned, in the order of their spawning
    np_handlers,       \* Multipaint: handler calls past their first lock
    np_resp            \* Multipaint: the latest response
\* The data of a message is identified by the message's number on the
\* channel, so that any two messages carry different data.

vars == <<pc, ret, request_pty, cycle, reconnect_attempt, attempts, sleeping,
          events, connect_result, prev_consumed, sessions, close_attempts,
          close_result, fwd_step, fwd_result, fwd_code, wait_msgs, stdout,
          stderr, secret_key, last_msg, pending_failure, session_task,
          bridge, chan_closed, chan_in, served, chan_out, conn_info,
          host_key, board_in, board_out, cb_usize_bits, cb_checkboxes,
          cb_handlers, cb_last, cb_resp, np_state, np_checkboxes, np_puzzle,
          np_timer, np_stale_timers, np_tasks, np_handlers, np_resp>>

connect_vars == <<reconnect_attempt, attempts, sleeping, events,
                  connect_result, host_key>>
close_vars == <<close_attempts, close_result>>
fwd_vars == <<fwd_step, fwd_result, fwd_code, wait_msgs, stdout, stderr>>
\* what only the bridge tasks and the remote's traffic on their channels
\* change
data_vars == <<bridge, chan_in, served, chan_out, conn_info>>
\* what only a call of populate_board changes
board_vars == <<board_in, board_out>>
\* the Checkboxes service (http/checkbox.rs)
cb_vars == <<cb_usize_bits, cb_checkboxes, cb_handlers, cb_last, cb_resp>>
\* what no step of the tunnel changes: the state of the HTTP services and
\* of populate_board
\* the Multipaint service (http/multipaint_by_numbers.rs)
np_vars == <<np_state, np_checkboxes, np_puzzle, np_timer, np_stale_timers,
             np_tasks, np_handlers, np_resp>>
service_vars == <<board_vars, cb_vars, np_vars>>

(* -------------------------- backoff closure ---------------------------- *)

\* Option<Duration>: Some(d) is <<d>>, None is <<>>
Some(d) == <<d>>
None == <<>>

\* mutant: the bound test is off by one
timer_iterator_next_off_by_one(n) ==
    [counter |-> n + 1,
     value |-> IF n + 1 < 5 THEN Some(2 * (n + 1)) ELSE None]

\* mutant: the closure yields a sixth delay
timer_iterator_next_one_more(n) ==
    [counter |-> n + 1,
     value |-> IF n + 1 <= 6 THEN Some(2 * (n + 1)) ELSE None]

\* The closure of iter::from_fn: n is reconnect_attempt before the call.
timer_iterator_next(n) ==
    [counter |-> n + 1,
     value |-> IF n + 1 <= 5 THEN Some(2 * (n + 1)) ELSE None]

\* The values of the first k calls of a closure whose counter starts at n.
RECURSIVE Schedule(_, _)
Schedule(n, k) ==
    IF k = 0 THEN <<>>
    ELSE <<timer_iterator_next(n).value>>
             \o Schedule(timer_iterator_next(n).counter, k - 1)

(* ------------------------------ Init ----------------------------------- *)

\* no connection is in its handshake
NoKey == <<"none", "none">>

\* no service was made for the channel
NoAddr == <<>>

\* populate_board is not called by the tunnel client
NoBoardIn ==
    [rows |-> 0, columns |-> 0, solution |-> <<>>, overflow_checks |-> FALSE]
NoBoardOut ==
    [status |-> "none", rows |-> <<>>, columns |-> <<>>, solution |-> <<>>]

\* checkbox.rs:17-18
CHECKBOX_WIDTH == 20
CHECKBOX_HEIGHT == 20

\* the widths of usize of the targets the program is built for
UsizeBits == {32, 64}

\* BitArr!(for CHECKBOX_WIDTH*CHECKBOX_HEIGHT, in usize, Lsb0): an array of
\* whole usize elements, the fewest that hold that many bits. The length
\* of the bit array (of the slice it dereferences to) is the number of
\* bits of its elements.
StorageBits(usize_bits) ==
    ((CHECKBOX_WIDTH * CHECKBOX_HEIGHT + usize_bits - 1) \div usize_bits)
        * usize_bits

\* the ids the requests of the Checkboxes service are made with: the first
\* and the last checkbox of the grid, the first id after the grid, and the
\* first ids after the array on either target
CheckboxIds ==
    {0, CHECKBOX_WIDTH * CHECKBOX_HEIGHT - 1, CHECKBOX_WIDTH * CHECKBOX_HEIGHT}
        \cup {StorageBits(w) : w \in UsizeBits}

NoCbResp == [op |-> "none", id |-> 0, status |-> "none", checked |-> {}]

\* the Checkboxes service as get_router makes it, with no request yet
\* (checkbox.rs:27-29: BitArray::ZERO)
CheckboxInit ==
    /\ cb_usize_bits \in UsizeBits
    /\ cb_checkboxes = {}
    /\ cb_handlers = {}
    /\ cb_last = [id \in CheckboxIds |-> "none"]
    /\ cb_resp = NoCbResp

TaskIds == 1..MaxTasks

\* a task is pending from its spawning to the end of its install; it was
\* spawned for the puzzle that is current or for an earlier one
NoTask == [pc |-> "none", current |-> FALSE]
NoNpResp == "none"

\* the Multipaint service before get_router is called
MultipaintIdle ==
    /\ np_state = "Unsolved"
    /\ np_checkboxes = <<>>
    /\ np_puzzle = 0
    /\ np_timer = "none"
    /\ np_stale_timers = 0
    /\ np_tasks = [t \in TaskIds |-> NoTask]
    /\ np_handlers = {}
    /\ np_resp = NoNpResp

\* the services are not part of what the tunnel specifications do: there
\* they stay as they are made
ServicesIdle ==
    /\ CheckboxInit
    /\ cb_usize_bits = 64
    /\ MultipaintIdle

\* no message taken from the auxiliary channel yet
NoMsg == <<"none", 0>>

\* The transport of the current session goes down (disconnect, dropped
\* handle, dead session task): every channel opened on it is closed.
AllChannelsClosed ==
    [b \in BridgeIds |-> chan_closed[b] \/ bridge[b] # "none"]

Init ==
    /\ pc = "read_key"
    /\ ret = "none"
    /\ request_pty \in BOOLEAN
    /\ cycle = 0
    /\ reconnect_attempt = 0
    /\ attempts = 0
    /\ sleeping = 0
    /\ events = <<>>
    /\ connect_result = "none"
    /\ prev_consumed = 0
    /\ sessions = [s \in SessionIds |-> "NotCreated"]
    /\ close_attempts = [s \in SessionIds |-> 0]
    /\ close_result = "none"
    /\ fwd_step = <<>>
    /\ fwd_result = "none"
    /\ fwd_code = 0
    /\ wait_msgs = 0
    /\ stdout = <<>>
    /\ stderr = <<>>
    /\ secret_key = "unread"
    /\ last_msg = NoMsg
    /\ pending_failure = FALSE
    /\ session_task = "none"
    /\ bridge = [b \in BridgeIds |-> "none"]
    /\ chan_closed = [b \in BridgeIds |-> FALSE]
    /\ chan_in = [b \in BridgeIds |-> <<>>]
    /\ served = [b \in BridgeIds |-> <<>>]
    /\ chan_out = [b \in BridgeIds |-> <<>>]
    /\ conn_info = [b \in BridgeIds |-> NoAddr]
    /\ host_key = NoKey
    /\ board_in = NoBoardIn
    /\ board_out = NoBoardOut
    /\ ServicesIdle

(* ------------------- ssh_entrypoint: loading the key ------------------- *)

\* fs::read_to_string(identity_file) succeeds
ReadKeyOk ==
    /\ pc = "read_key"
    /\ pc' = "decode_key"
    /\ UNCHANGED <<ret, request_pty, cycle, prev_consumed, sessions,
                   close_vars>>
    /\ UNCHANGED connect_vars
    /\ UNCHANGED fwd_vars
    /\ secret_key' = "text"
    /\ UNCHANGED <<last_msg, pending_failure, session_task, chan_closed,
                   data_vars>>
    /\ UNCHANGED service_vars

\* fs::read_to_string(identity_file) fails: "Failed to open secret key"
ReadKeyErr ==
    /\ pc = "read_key"
    /\ pc' = "returned"
    /\ ret' = "FailedToOpenSecretKey"
    /\ UNCHANGED <<request_pty, cycle, prev_consumed, sessions,
                   close_vars>>
    /\ UNCHANGED connect_vars
    /\ UNCHANGED fwd_vars
    /\ secret_key' = "unreadable"
    /\ UNCHANGED <<last_msg, pending_failure, session_task, chan_closed,
                   data_vars>>
    /\ UNCHANGED service_vars

\* decode_secret_key succeeds; the loop is entered
DecodeKeyOk ==
    /\ pc = "decode_key"
    /\ pc' = "loop"
    /\ UNCHANGED <<ret, request_pty, cycle, prev_consumed, sessions,
                   close_vars>>
    /\ UNCHANGED connect_vars
    /\ UNCHANGED fwd_vars
    /\ secret_key' = "decoded"
    /\ UNCHANGED <<last_msg, pending_failure, session_task, chan_closed,
                   data_vars>>
    /\ UNCHANGED service_vars

\* mutant: an invalid key is logged and the loop is entered all the same
DecodeKeyErr_continues ==
    /\ pc = "decode_key"
    /\ pc' = "loop"
    /\ UNCHANGED <<ret, request_pty, cycle, prev_consumed, sessions,
                   close_vars>>
    /\ UNCHANGED connect_vars
    /\ UNCHANGED fwd_vars
    /\ secret_key' = "invalid"
    /\ UNCHANGED <<last_msg, pending_failure, session_task, chan_closed,
                   data_vars>>
    /\ UNCHANGED service_vars

\* decode_secret_key fails: "Invalid secret key"
DecodeKeyErr ==
    /\ pc = "decode_key"
    /\ pc' = "returned"
    /\ ret' = "InvalidSecretKey"
    /\ UNCHANGED <<request_pty, cycle, prev_consumed, sessions,
                   close_vars>>
    /\ UNCHANGED connect_vars
    /\ UNCHANGED fwd_vars
    /\ secret_key' = "invalid"
    /\ UNCHANGED <<last_msg, pending_failure, session_task, chan_closed,
                   data_vars>>
    /\ UNCHANGED service_vars

(* ---------------- ssh_entrypoint: one loop iteration ------------------ *)

\* the delays a connect call has drawn from its schedule so far
NumYields(ev) ==
    Cardinality({i \in 1..Len(ev) : ev[i][1] = "yield_some"})

\* the transport failures of a connect call so far
NumFailed(ev) ==
    Cardinality({i \in 1..Len(ev) : ev[i][1] = "failed"})

\* mutant: the counter is declared outside the loop and never reset
LoopTop_keeps_counter ==
    /\ pc = "loop"
    /\ cycle < MaxCycles
    /\ pc' = "connect_loop"
    /\ cycle' = cycle + 1
    /\ reconnect_attempt' = reconnect_attempt
    /\ attempts' = 0
    /\ sleeping' = 0
    /\ events' = <<>>
    /\ connect_result' = "none"
    /\ prev_consumed' = prev_consumed + NumYields(events)
    /\ fwd_step' = <<>>
    /\ fwd_result' = "none"
    /\ fwd_code' = 0
    /\ wait_msgs' = 0
    /\ stdout' = <<>>
    /\ stderr' = <<>>
    /\ UNCHANGED <<ret, request_pty, sessions, close_vars>>
    /\ last_msg' = NoMsg
    /\ UNCHANGED <<secret_key, pending_failure, session_task, chan_closed,
                   data_vars>>
    /\ UNCHANGED host_key
    /\ UNCHANGED service_vars

\* `loop {`: a new counter and closure, then connect is entered
\* (attempts = 0).  The records of the previous iteration are cleared.
LoopTop ==
    /\ pc = "loop"
    /\ cycle < MaxCycles
    /\ pc' = "connect_loop"
    /\ cycle' = cycle + 1
    /\ reconnect_attempt' = 0
    /\ attempts' = 0
    /\ sleeping' = 0
    /\ events' = <<>>
    /\ connect_result' = "none"
    /\ prev_consumed' = prev_consumed + NumYields(events)
    /\ fwd_step' = <<>>
    /\ fwd_result' = "none"
    /\ fwd_code' = 0
    /\ wait_msgs' = 0
    /\ stdout' = <<>>
    /\ stderr' = <<>>
    /\ UNCHANGED <<ret, request_pty, sessions, close_vars>>
    /\ last_msg' = NoMsg
    /\ UNCHANGED <<secret_key, pending_failure, session_task, chan_closed,
                   data_vars>>
    /\ UNCHANGED host_key
    /\ UNCHANGED service_vars

\* mutant: a failed connect is logged and the loop restarts
EntrypointOnConnectErr_restarts ==
    /\ pc' = "loop"
    /\ ret' = ret

\* `.with_context(|| "Connection failed.")?`: the error of connect is
\* returned from ssh_entrypoint.
EntrypointOnConnectErr ==
    /\ pc' = "returned"
    /\ ret' = "ConnectionFailed"

(* --------------------- TcpForwardSession::connect ---------------------- *)

\* top of the retry loop: `attempts += 1`, then client::connect is begun
ConnectAttempt ==
    /\ pc = "connect_loop"
    /\ pc' = "connecting"
    /\ attempts' = attempts + 1
    /\ events' = Append(events, <<"attempt", attempts + 1>>)
    /\ UNCHANGED <<ret, request_pty, cycle, reconnect_attempt, sleeping,
                   connect_result, prev_consumed, sessions, close_vars>>
    /\ UNCHANGED fwd_vars
    /\ pending_failure' = FALSE
    /\ UNCHANGED <<secret_key, last_msg, session_task, chan_closed,
                   data_vars>>
    /\ UNCHANGED host_key
    /\ UNCHANGED service_vars

\* keys a server may present: the one seen before, another one
ServerKeys == {"known_key", "other_key"}

\* mutant: only the key seen before is accepted
check_server_key_known_only(key) == key = "known_key"

\* Client::check_server_key: Ok(true) whatever the key
check_server_key(key) == TRUE

\* mutant: the port-forward request follows the connection at once,
\* before any authentication
ClientConnectOk_skips_auth(key) ==
    /\ pc = "connecting"
    /\ pc' = "tcpip_forward"
    /\ events' = Append(events, <<"connected", attempts>>)
    /\ sessions' = [sessions EXCEPT ![cycle] = "Forwarding"]
    /\ session_task' = "running"
    /\ host_key' = NoKey
    /\ connect_result' = "Ok"
    /\ UNCHANGED <<ret, reconnect_attempt, sleeping, pending_failure>>
    /\ UNCHANGED <<request_pty, cycle, attempts, prev_consumed, close_vars>>
    /\ UNCHANGED fwd_vars
    /\ UNCHANGED <<secret_key, last_msg, chan_closed, data_vars>>
    /\ UNCHANGED service_vars

\* The transport is up and the server presents `key`.  Accepted by
\* check_server_key, client::connect returns Ok(session) and
\* authenticate_publickey is begun; refused, client::connect returns Err
\* and the schedule is consulted as for any other failure.
ClientConnectOk(key) ==
    /\ pc = "connecting"
    /\ IF check_server_key(key)
       THEN /\ pc' = "authenticating"
            /\ events' = Append(events, <<"connected", attempts>>)
            /\ sessions' = [sessions EXCEPT ![cycle] = "Authenticating"]
            /\ session_task' = "running"
            /\ host_key' = <<key, "accepted">>
            /\ UNCHANGED <<ret, reconnect_attempt, sleeping,
                           connect_result, pending_failure>>
       ELSE /\ LET r == timer_iterator_next(reconnect_attempt) IN
                /\ reconnect_attempt' = r.counter
                /\ IF r.value = None
                   THEN /\ events' = events \o <<<<"failed", attempts>>,
                                                 <<"yield_none", 0>>>>
                        /\ connect_result' = "GaveUp"
                        /\ sleeping' = 0
                        /\ EntrypointOnConnectErr
                   ELSE /\ events' = events \o <<<<"failed", attempts>>,
                                                 <<"yield_some", r.value[1]>>>>
                        /\ connect_result' = connect_result
                        /\ sleeping' = r.value[1]
                        /\ pc' = "sleeping"
                        /\ ret' = ret
            /\ pending_failure' = TRUE
            /\ host_key' = <<key, "refused">>
            /\ UNCHANGED <<sessions, session_task>>
    /\ UNCHANGED <<request_pty, cycle, attempts, prev_consumed, close_vars>>
    /\ UNCHANGED fwd_vars
    /\ UNCHANGED <<secret_key, last_msg, chan_closed, data_vars>>
    /\ UNCHANGED service_vars

\* mutant: the failure is retried at once, with no delay
ClientConnectErr_no_sleep ==
    /\ pc = "connecting"
    /\ LET r == timer_iterator_next(reconnect_attempt) IN
        /\ reconnect_attempt' = r.counter
        /\ IF r.value = None
           THEN /\ events' = events \o <<<<"failed", attempts>>,
                                         <<"yield_none", 0>>>>
                /\ connect_result' = "GaveUp"
                /\ sleeping' = 0
                /\ EntrypointOnConnectErr
           ELSE /\ events' = events \o <<<<"failed", attempts>>,
                                         <<"yield_some", r.value[1]>>>>
                /\ connect_result' = connect_result
                /\ sleeping' = 0
                /\ pc' = "connect_loop"
                /\ ret' = ret
    /\ UNCHANGED <<request_pty, cycle, attempts, prev_consumed, sessions,
                   close_vars>>
    /\ UNCHANGED fwd_vars
    /\ pending_failure' = TRUE
    /\ UNCHANGED <<secret_key, last_msg, session_task, chan_closed,
                   data_vars>>
    /\ UNCHANGED host_key
    /\ UNCHANGED service_vars

\* mutant: an exhausted schedule is answered by one more delay and attempt
ClientConnectErr_never_gives_up ==
    /\ pc = "connecting"
    /\ attempts < 8
    /\ LET r == timer_iterator_next(reconnect_attempt) IN
        /\ reconnect_attempt' = r.counter
        /\ IF r.value = None
           THEN /\ events' = events \o <<<<"failed", attempts>>,
                                         <<"yield_none", 0>>>>
                /\ sleeping' = 12
           ELSE /\ events' = events \o <<<<"failed", attempts>>,
                                         <<"yield_some", r.value[1]>>>>
                /\ sleeping' = r.value[1]
        /\ connect_result' = connect_result
        /\ pc' = "sleeping"
        /\ ret' = ret
    /\ UNCHANGED <<request_pty, cycle, attempts, prev_consumed, sessions,
                   close_vars>>
    /\ UNCHANGED fwd_vars
    /\ pending_failure' = TRUE
    /\ UNCHANGED <<secret_key, last_msg, session_task, chan_closed,
                   data_vars>>
    /\ UNCHANGED host_key
    /\ UNCHANGED service_vars

\* client::connect returns Err: the schedule is consulted.  None: connect
\* returns "Gave up graceful reconnection."; Some(d): sleep(d) is begun.
ClientConnectErr ==
    /\ pc = "connecting"
    /\ LET r == timer_iterator_next(reconnect_attempt) IN
        /\ reconnect_attempt' = r.counter
        /\ IF r.value = None
           THEN /\ events' = events \o <<<<"failed", attempts>>,
                                         <<"yield_none", 0>>>>
                /\ connect_result' = "GaveUp"
                /\ sleeping' = 0
                /\ EntrypointOnConnectErr
           ELSE /\ events' = events \o <<<<"failed", attempts>>,
                                         <<"yield_some", r.value[1]>>>>
                /\ connect_result' = connect_result
                /\ sleeping' = r.value[1]
                /\ pc' = "sleeping"
                /\ ret' = ret
    /\ UNCHANGED <<request_pty, cycle, attempts, prev_consumed, sessions,
                   close_vars>>
    /\ UNCHANGED fwd_vars
    /\ pending_failure' = TRUE
    /\ UNCHANGED <<secret_key, last_msg, session_task, chan_closed,
                   data_vars>>
    /\ UNCHANGED host_key
    /\ UNCHANGED service_vars

\* sleep(duration) completes; the loop goes round
SleepDone ==
    /\ pc = "sleeping"
    /\ pc' = "connect_loop"
    /\ events' = Append(events, <<"slept", sleeping>>)
    /\ sleeping' = 0
    /\ UNCHANGED <<ret, request_pty, cycle, reconnect_attempt, attempts,
                   connect_result, prev_consumed, sessions, close_vars>>
    /\ UNCHANGED fwd_vars
    /\ pending_failure' = FALSE
    /\ UNCHANGED <<secret_key, last_msg, session_task, chan_closed,
                   data_vars>>
    /\ UNCHANGED host_key
    /\ UNCHANGED service_vars

\* authenticate_publickey returns Ok(true): `break session`, connect
\* returns Ok and start_forwarding is entered
AuthOk ==
    /\ pc = "authenticating"
    /\ pc' = "tcpip_forward"
    /\ events' = Append(events, <<"auth_ok", attempts>>)
    /\ connect_result' = "Ok"
    /\ sessions' = [sessions EXCEPT ![cycle] = "Forwarding"]
    /\ UNCHANGED <<ret, request_pty, cycle, reconnect_attempt, attempts,
                   sleeping, prev_consumed, close_vars>>
    /\ UNCHANGED fwd_vars
    /\ UNCHANGED <<secret_key, last_msg, pending_failure, session_task,
                   chan_closed, data_vars>>
    /\ host_key' = NoKey
    /\ UNCHANGED service_vars

\* mutant: a rejected key is handled like a transport failure
AuthRejected_retries ==
    /\ pc = "authenticating"
    /\ LET r == timer_iterator_next(reconnect_attempt) IN
        /\ reconnect_attempt' = r.counter
        /\ IF r.value = None
           THEN /\ events' = events \o <<<<"auth_rejected", attempts>>,
                                         <<"yield_none", 0>>>>
                /\ connect_result' = "AuthRejected"
                /\ sleeping' = 0
                /\ EntrypointOnConnectErr
           ELSE /\ events' = events \o <<<<"auth_rejected", attempts>>,
                                         <<"yield_some", r.value[1]>>>>
                /\ connect_result' = connect_result
                /\ sleeping' = r.value[1]
                /\ pc' = "sleeping"
                /\ ret' = ret
    /\ sessions' = [sessions EXCEPT ![cycle] = "Disconnected"]
    /\ UNCHANGED <<request_pty, cycle, attempts, prev_consumed,
                   close_vars>>
    /\ UNCHANGED fwd_vars
    /\ session_task' = "stopped"
    /\ UNCHANGED <<secret_key, last_msg, pending_failure, chan_closed,
                   data_vars>>
    /\ host_key' = NoKey
    /\ UNCHANGED service_vars

\* authenticate_publickey returns Ok(false): connect returns
\* "Public key authentication failed."; the handle is dropped
AuthRejected ==
    /\ pc = "authenticating"
    /\ events' = Append(events, <<"auth_rejected", attempts>>)
    /\ connect_result' = "AuthRejected"
    /\ sessions' = [sessions EXCEPT ![cycle] = "Disconnected"]
    /\ EntrypointOnConnectErr
    /\ UNCHANGED <<request_pty, cycle, reconnect_attempt, attempts, sleeping,
                   prev_consumed, close_vars>>
    /\ UNCHANGED fwd_vars
    /\ session_task' = "stopped"
    /\ UNCHANGED <<secret_key, last_msg, pending_failure, chan_closed,
                   data_vars>>
    /\ host_key' = NoKey
    /\ UNCHANGED service_vars

\* mutant: an error of the authentication exchange is handled like a
\* transport failure
AuthErr_retries ==
    /\ pc = "authenticating"
    /\ LET r == timer_iterator_next(reconnect_attempt) IN
        /\ reconnect_attempt' = r.counter
        /\ IF r.value = None
           THEN /\ events' = events \o <<<<"auth_error", attempts>>,
                                         <<"yield_none", 0>>>>
                /\ connect_result' = "AuthError"
                /\ sleeping' = 0
                /\ EntrypointOnConnectErr
           ELSE /\ events' = events \o <<<<"auth_error", attempts>>,
                                         <<"yield_some", r.value[1]>>>>
                /\ connect_result' = connect_result
                /\ sleeping' = r.value[1]
                /\ pc' = "sleeping"
                /\ ret' = ret
    /\ sessions' = [sessions EXCEPT ![cycle] = "Disconnected"]
    /\ UNCHANGED <<request_pty, cycle, attempts, prev_consumed,
                   close_vars>>
    /\ UNCHANGED fwd_vars
    /\ session_task' = "stopped"
    /\ UNCHANGED <<secret_key, last_msg, pending_failure, chan_closed,
                   data_vars>>
    /\ host_key' = NoKey
    /\ UNCHANGED service_vars

\* authenticate_publickey returns Err: `?` returns "Error while
\* authenticating with public key."; the handle is dropped
AuthErr ==
    /\ pc = "authenticating"
    /\ events' = Append(events, <<"auth_error", attempts>>)
    /\ connect_result' = "AuthError"
    /\ sessions' = [sessions EXCEPT ![cycle] = "Disconnected"]
    /\ EntrypointOnConnectErr
    /\ UNCHANGED <<request_pty, cycle, reconnect_attempt, attempts, sleeping,
                   prev_consumed, close_vars>>
    /\ UNCHANGED fwd_vars
    /\ session_task' = "stopped"
    /\ UNCHANGED <<secret_key, last_msg, pending_failure, chan_closed,
                   data_vars>>
    /\ host_key' = NoKey
    /\ UNCHANGED service_vars

(* ----------------- TcpForwardSession::start_forwarding ---------------- *)

\* mutant: an error of start_forwarding is propagated with `?`
FwdEnds_propagates(result, code) ==
    /\ fwd_result' = result
    /\ fwd_code' = code
    /\ IF result = "Ok"
       THEN /\ pc' = "close"
            /\ ret' = ret
            /\ sessions' = [sessions EXCEPT ![cycle] = "Closing"]
       ELSE /\ pc' = "returned"
            /\ ret' = "ForwardingFailed"
            /\ sessions' = [sessions EXCEPT ![cycle] = "Disconnected"]
    /\ pending_failure' = (result # "Ok")

\* mutant: the loop restarts without the disconnect
FwdEnds_skips_close(result, code) ==
    /\ fwd_result' = result
    /\ fwd_code' = code
    /\ pc' = "loop"
    /\ ret' = ret
    /\ sessions' = [sessions EXCEPT ![cycle] = "Forwarding"]
    /\ pending_failure' = (result # "Ok")

\* start_forwarding returns (Ok(code) or Err): the `match` of
\* ssh_entrypoint logs either and goes on to session.close().
FwdEnds(result, code) ==
    /\ fwd_result' = result
    /\ fwd_code' = code
    /\ pc' = "close"
    /\ ret' = ret
    /\ sessions' = [sessions EXCEPT ![cycle] = "Closing"]
    /\ pending_failure' = (result # "Ok")

\* session.tcpip_forward succeeds
TcpipForwardOk ==
    /\ pc = "tcpip_forward"
    /\ session_task = "running"
    /\ pc' = "channel_open_session"
    /\ fwd_step' = Append(fwd_step, "tcpip_forward")
    /\ UNCHANGED <<ret, request_pty, cycle, prev_consumed, sessions,
                   close_vars, fwd_result, fwd_code, wait_msgs, stdout,
                   stderr>>
    /\ UNCHANGED connect_vars
    /\ UNCHANGED <<secret_key, last_msg, pending_failure, session_task,
                   chan_closed, data_vars>>
    /\ UNCHANGED service_vars

\* session.tcpip_forward fails: "tcpip_forward error."
TcpipForwardErr ==
    /\ pc = "tcpip_forward"
    /\ fwd_step' = Append(fwd_step, "tcpip_forward")
    /\ FwdEnds("Err_tcpip_forward", 0)
    /\ UNCHANGED <<request_pty, cycle, prev_consumed, close_vars,
                   wait_msgs, stdout, stderr>>
    /\ UNCHANGED connect_vars
    /\ UNCHANGED <<secret_key, last_msg, session_task, chan_closed,
                   data_vars>>
    /\ UNCHANGED service_vars

\* mutant: the pseudo-terminal is requested whether or not a command is
\* configured
ChannelOpenSessionOk_always_pty ==
    /\ pc = "channel_open_session"
    /\ session_task = "running"
    /\ pc' = "request_pty"
    /\ fwd_step' = Append(fwd_step, "channel_open_session")
    /\ UNCHANGED <<ret, request_pty, cycle, prev_consumed, sessions,
                   close_vars, fwd_result, fwd_code, wait_msgs, stdout,
                   stderr>>
    /\ UNCHANGED connect_vars
    /\ UNCHANGED <<secret_key, last_msg, pending_failure, session_task,
                   chan_closed, data_vars>>
    /\ UNCHANGED service_vars

\* session.channel_open_session succeeds
ChannelOpenSessionOk ==
    /\ pc = "channel_open_session"
    /\ session_task = "running"
    /\ pc' = IF request_pty THEN "request_pty" ELSE "wait"
    /\ fwd_step' = Append(fwd_step, "channel_open_session")
    /\ UNCHANGED <<ret, request_pty, cycle, prev_consumed, sessions,
                   close_vars, fwd_result, fwd_code, wait_msgs, stdout,
                   stderr>>
    /\ UNCHANGED connect_vars
    /\ UNCHANGED <<secret_key, last_msg, pending_failure, session_task,
                   chan_closed, data_vars>>
    /\ UNCHANGED service_vars

\* session.channel_open_session fails: "channel_open_session error."
ChannelOpenSessionErr ==
    /\ pc = "channel_open_session"
    /\ fwd_step' = Append(fwd_step, "channel_open_session")
    /\ FwdEnds("Err_channel_open_session", 0)
    /\ UNCHANGED <<request_pty, cycle, prev_consumed, close_vars,
                   wait_msgs, stdout, stderr>>
    /\ UNCHANGED connect_vars
    /\ UNCHANGED <<secret_key, last_msg, session_task, chan_closed,
                   data_vars>>
    /\ UNCHANGED service_vars

\* termsize::get() is None (no terminal): `.unwrap()` panics; the task
\* unwinds, the handle is dropped, nothing after it runs.
TermsizeNone ==
    /\ pc = "request_pty"
    /\ pc' = "panicked"
    /\ sessions' = [sessions EXCEPT ![cycle] = "Disconnected"]
    /\ UNCHANGED <<ret, request_pty, cycle, prev_consumed, close_vars>>
    /\ UNCHANGED connect_vars
    /\ UNCHANGED fwd_vars
    /\ session_task' = "stopped"
    /\ chan_closed' = AllChannelsClosed
    /\ UNCHANGED <<secret_key, last_msg, pending_failure, data_vars>>
    /\ UNCHANGED service_vars

\* termsize::get() is Some and channel.request_pty succeeds
RequestPtyOk ==
    /\ pc = "request_pty"
    /\ session_task = "running"
    /\ pc' = "exec"
    /\ fwd_step' = Append(fwd_step, "request_pty")
    /\ UNCHANGED <<ret, request_pty, cycle, prev_consumed, sessions,
                   close_vars, fwd_result, fwd_code, wait_msgs, stdout,
                   stderr>>
    /\ UNCHANGED connect_vars
    /\ UNCHANGED <<secret_key, last_msg, pending_failure, session_task,
                   chan_closed, data_vars>>
    /\ UNCHANGED service_vars

\* channel.request_pty fails: "Unable to request pseudo-terminal."
RequestPtyErr ==
    /\ pc = "request_pty"
    /\ fwd_step' = Append(fwd_step, "request_pty")
    /\ FwdEnds("Err_request_pty", 0)
    /\ UNCHANGED <<request_pty, cycle, prev_consumed, close_vars,
                   wait_msgs, stdout, stderr>>
    /\ UNCHANGED connect_vars
    /\ UNCHANGED <<secret_key, last_msg, session_task, chan_closed,
                   data_vars>>
    /\ UNCHANGED service_vars

\* channel.exec(true, cmd) succeeds
ExecOk ==
    /\ pc = "exec"
    /\ session_task = "running"
    /\ pc' = "wait"
    /\ fwd_step' = Append(fwd_step, "exec")
    /\ UNCHANGED <<ret, request_pty, cycle, prev_consumed, sessions,
                   close_vars, fwd_result, fwd_code, wait_msgs, stdout,
                   stderr>>
    /\ UNCHANGED connect_vars
    /\ UNCHANGED <<secret_key, last_msg, pending_failure, session_task,
                   chan_closed, data_vars>>
    /\ UNCHANGED service_vars

\* channel.exec fails: "Unable to execute command for pseudo-terminal."
ExecErr ==
    /\ pc = "exec"
    /\ fwd_step' = Append(fwd_step, "exec")
    /\ FwdEnds("Err_exec", 0)
    /\ UNCHANGED <<request_pty, cycle, prev_consumed, close_vars,
                   wait_msgs, stdout, stderr>>
    /\ UNCHANGED connect_vars
    /\ UNCHANGED <<secret_key, last_msg, session_task, chan_closed,
                   data_vars>>
    /\ UNCHANGED service_vars

\* channel.wait() is None: "Unexpected end of channel."
WaitNone ==
    /\ pc = "wait"
    /\ FwdEnds("Err_end_of_channel", 0)
    /\ UNCHANGED <<request_pty, cycle, prev_consumed, close_vars,
                   fwd_step, wait_msgs, stdout, stderr>>
    /\ UNCHANGED connect_vars
    /\ last_msg' = <<"None", 0>>
    /\ UNCHANGED <<secret_key, session_task, chan_closed, data_vars>>
    /\ UNCHANGED service_vars

\* ChannelMsg::Data: written to stdout and flushed; the loop goes round
WaitData ==
    /\ pc = "wait"
    /\ session_task = "running"
    /\ wait_msgs < MaxMsgs
    /\ wait_msgs' = wait_msgs + 1
    /\ stdout' = Append(stdout, wait_msgs + 1)
    /\ UNCHANGED <<pc, ret, request_pty, cycle, prev_consumed, sessions,
                   close_vars, fwd_step, fwd_result, fwd_code, stderr>>
    /\ UNCHANGED connect_vars
    /\ last_msg' = <<"Data", wait_msgs + 1>>
    /\ UNCHANGED <<secret_key, pending_failure, session_task, chan_closed,
                   data_vars>>
    /\ UNCHANGED service_vars

\* ChannelMsg::Data, and write_all or flush fails: `?` returns the error;
\* the data may or may not have reached stdout.
WaitDataErr ==
    /\ pc = "wait"
    /\ session_task = "running"
    /\ wait_msgs' = wait_msgs + 1
    /\ stdout' \in {stdout, Append(stdout, wait_msgs + 1)}
    /\ FwdEnds("Err_stdout", 0)
    /\ UNCHANGED <<request_pty, cycle, prev_consumed, close_vars,
                   fwd_step, stderr>>
    /\ UNCHANGED connect_vars
    /\ last_msg' = <<"Data", wait_msgs + 1>>
    /\ UNCHANGED <<secret_key, session_task, chan_closed, data_vars>>
    /\ UNCHANGED service_vars

\* mutant: stderr data is written to stdout
WaitExtendedData_to_stdout ==
    /\ pc = "wait"
    /\ session_task = "running"
    /\ wait_msgs < MaxMsgs
    /\ wait_msgs' = wait_msgs + 1
    /\ stdout' = Append(stdout, wait_msgs + 1)
    /\ UNCHANGED <<pc, ret, request_pty, cycle, prev_consumed, sessions,
                   close_vars, fwd_step, fwd_result, fwd_code, stderr>>
    /\ UNCHANGED connect_vars
    /\ last_msg' = <<"ExtendedData", wait_msgs + 1>>
    /\ UNCHANGED <<secret_key, pending_failure, session_task, chan_closed,
                   data_vars>>
    /\ UNCHANGED service_vars

\* ChannelMsg::ExtendedData with ext 1: written to stderr and flushed
WaitExtendedData ==
    /\ pc = "wait"
    /\ session_task = "running"
    /\ wait_msgs < MaxMsgs
    /\ wait_msgs' = wait_msgs + 1
    /\ stderr' = Append(stderr, wait_msgs + 1)
    /\ UNCHANGED <<pc, ret, request_pty, cycle, prev_consumed, sessions,
                   close_vars, fwd_step, fwd_result, fwd_code, stdout>>
    /\ UNCHANGED connect_vars
    /\ last_msg' = <<"ExtendedData", wait_msgs + 1>>
    /\ UNCHANGED <<secret_key, pending_failure, session_task, chan_closed,
                   data_vars>>
    /\ UNCHANGED service_vars

\* ChannelMsg::ExtendedData with ext 1, and write_all or flush fails
WaitExtendedDataErr ==
    /\ pc = "wait"
    /\ session_task = "running"
    /\ wait_msgs' = wait_msgs + 1
    /\ stderr' \in {stderr, Append(stderr, wait_msgs + 1)}
    /\ FwdEnds("Err_stderr", 0)
    /\ UNCHANGED <<request_pty, cycle, prev_consumed, close_vars,
                   fwd_step, stdout>>
    /\ UNCHANGED connect_vars
    /\ last_msg' = <<"ExtendedData", wait_msgs + 1>>
    /\ UNCHANGED <<secret_key, session_task, chan_closed, data_vars>>
    /\ UNCHANGED service_vars

\* ChannelMsg::Success: nothing is done
WaitSuccess ==
    /\ pc = "wait"
    /\ session_task = "running"
    /\ wait_msgs < MaxMsgs
    /\ wait_msgs' = wait_msgs + 1
    /\ UNCHANGED <<pc, ret, request_pty, cycle, prev_consumed, sessions,
                   close_vars, fwd_step, fwd_result, fwd_code, stdout,
                   stderr>>
    /\ UNCHANGED connect_vars
    /\ last_msg' = <<"Success", 0>>
    /\ UNCHANGED <<secret_key, pending_failure, session_task, chan_closed,
                   data_vars>>
    /\ UNCHANGED service_vars

\* ChannelMsg::Close: `break 0`
WaitClose ==
    /\ pc = "wait"
    /\ session_task = "running"
    /\ wait_msgs' = wait_msgs + 1
    /\ FwdEnds("Ok", 0)
    /\ UNCHANGED <<request_pty, cycle, prev_consumed, close_vars,
                   fwd_step, stdout, stderr>>
    /\ UNCHANGED connect_vars
    /\ last_msg' = <<"Close", 0>>
    /\ UNCHANGED <<secret_key, session_task, chan_closed, data_vars>>
    /\ UNCHANGED service_vars

\* mutant: the exit status is dropped, `break 0`
WaitExitStatus_returns_zero(exit_status) ==
    /\ pc = "wait"
    /\ session_task = "running"
    /\ wait_msgs' = wait_msgs + 1
    /\ fwd_step' = Append(fwd_step, "eof")
    /\ FwdEnds("Ok", 0)
    /\ UNCHANGED <<request_pty, cycle, prev_consumed, close_vars,
                   stdout, stderr>>
    /\ UNCHANGED connect_vars
    /\ last_msg' = <<"ExitStatus", exit_status>>
    /\ UNCHANGED <<secret_key, session_task, chan_closed, data_vars>>
    /\ UNCHANGED service_vars

\* ChannelMsg::ExitStatus and channel.eof() succeeds: `break exit_status`
WaitExitStatus(exit_status) ==
    /\ pc = "wait"
    /\ session_task = "running"
    /\ wait_msgs' = wait_msgs + 1
    /\ fwd_step' = Append(fwd_step, "eof")
    /\ FwdEnds("Ok", exit_status)
    /\ UNCHANGED <<request_pty, cycle, prev_consumed, close_vars,
                   stdout, stderr>>
    /\ UNCHANGED connect_vars
    /\ last_msg' = <<"ExitStatus", exit_status>>
    /\ UNCHANGED <<secret_key, session_task, chan_closed, data_vars>>
    /\ UNCHANGED service_vars

\* ChannelMsg::ExitStatus and channel.eof() fails: "Unable to close
\* connection."
WaitExitStatusEofErr(exit_status) ==
    /\ pc = "wait"
    /\ session_task = "running"
    /\ wait_msgs' = wait_msgs + 1
    /\ fwd_step' = Append(fwd_step, "eof")
    /\ FwdEnds("Err_eof", 0)
    /\ UNCHANGED <<request_pty, cycle, prev_consumed, close_vars,
                   stdout, stderr>>
    /\ UNCHANGED connect_vars
    /\ last_msg' = <<"ExitStatus", exit_status>>
    /\ UNCHANGED <<secret_key, session_task, chan_closed, data_vars>>
    /\ UNCHANGED service_vars

\* mutant: a message of another kind is ignored, like Success
WaitUnknown_ignored ==
    /\ pc = "wait"
    /\ session_task = "running"
    /\ wait_msgs < MaxMsgs
    /\ wait_msgs' = wait_msgs + 1
    /\ UNCHANGED <<pc, ret, request_pty, cycle, prev_consumed, sessions,
                   close_vars, fwd_step, fwd_result, fwd_code, stdout,
                   stderr>>
    /\ UNCHANGED connect_vars
    /\ last_msg' = <<"Unknown", 0>>
    /\ UNCHANGED <<secret_key, pending_failure, session_task, chan_closed,
                   data_vars>>
    /\ UNCHANGED service_vars

\* any other message (extended data with ext other than 1, Eof, Failure,
\* WindowAdjusted, ...): "Unknown message type"
WaitUnknown ==
    /\ pc = "wait"
    /\ session_task = "running"
    /\ wait_msgs' = wait_msgs + 1
    /\ FwdEnds("Err_unknown_message", 0)
    /\ UNCHANGED <<request_pty, cycle, prev_consumed, close_vars,
                   fwd_step, stdout, stderr>>
    /\ UNCHANGED connect_vars
    /\ last_msg' = <<"Unknown", 0>>
    /\ UNCHANGED <<secret_key, session_task, chan_closed, data_vars>>
    /\ UNCHANGED service_vars

(* ---------------------- TcpForwardSession::close ----------------------- *)

\* mutant: `session.close().await?`
Close_propagates(ok) ==
    /\ pc = "close"
    /\ close_attempts' = [close_attempts EXCEPT ![cycle] = @ + 1]
    /\ close_result' = IF ok THEN "Ok" ELSE "Err"
    /\ sessions' = [sessions EXCEPT ![cycle] = "Disconnected"]
    /\ IF ok
       THEN /\ pc' = "loop"
            /\ ret' = ret
       ELSE /\ pc' = "returned"
            /\ ret' = "CloseFailed"
    /\ UNCHANGED <<request_pty, cycle, prev_consumed>>
    /\ UNCHANGED connect_vars
    /\ UNCHANGED fwd_vars
    /\ session_task' = "stopped"
    /\ chan_closed' = AllChannelsClosed
    /\ UNCHANGED <<secret_key, last_msg, pending_failure, data_vars>>
    /\ UNCHANGED service_vars

\* mutant: closing the session aborts the bridge tasks
Close_aborts_bridges(ok) ==
    /\ pc = "close"
    /\ close_attempts' = [close_attempts EXCEPT ![cycle] = @ + 1]
    /\ close_result' = IF ok THEN "Ok" ELSE "Err"
    /\ sessions' = [sessions EXCEPT ![cycle] = "Disconnected"]
    /\ pc' = "loop"
    /\ UNCHANGED <<ret, request_pty, cycle, prev_consumed>>
    /\ UNCHANGED connect_vars
    /\ UNCHANGED fwd_vars
    /\ session_task' = "stopped"
    /\ chan_closed' = AllChannelsClosed
    /\ bridge' = [b \in BridgeIds |->
                    IF bridge[b] \in {"idle", "in_service"}
                    THEN "ended" ELSE bridge[b]]
    /\ UNCHANGED <<secret_key, last_msg, pending_failure, chan_in, served,
                   chan_out, conn_info>>
    /\ UNCHANGED service_vars

\* session.close(): disconnect(ByApplication) is sent and its result, Ok or
\* Err, only logged; the iteration ends (the handle is dropped) and the
\* loop goes round.
Close(ok) ==
    /\ pc = "close"
    /\ close_attempts' = [close_attempts EXCEPT ![cycle] = @ + 1]
    /\ close_result' = IF ok THEN "Ok" ELSE "Err"
    /\ sessions' = [sessions EXCEPT ![cycle] = "Disconnected"]
    /\ pc' = "loop"
    /\ UNCHANGED <<ret, request_pty, cycle, prev_consumed>>
    /\ UNCHANGED connect_vars
    /\ UNCHANGED fwd_vars
    /\ session_task' = "stopped"
    /\ chan_closed' = AllChannelsClosed
    /\ UNCHANGED <<secret_key, last_msg, pending_failure, data_vars>>
    /\ UNCHANGED service_vars

CloseOk == Close(TRUE)

CloseErr == Close(FALSE)

(* --------------------------- specification ----------------------------- *)

Next ==
    \/ ReadKeyOk
    \/ ReadKeyErr
    \/ DecodeKeyOk
    \/ DecodeKeyErr
    \/ LoopTop
    \/ ConnectAttempt
    \/ \E key \in ServerKeys : ClientConnectOk(key)
    \/ ClientConnectErr
    \/ SleepDone
    \/ AuthOk
    \/ AuthRejected
    \/ AuthErr
    \/ TcpipForwardOk
    \/ TcpipForwardErr
    \/ ChannelOpenSessionOk
    \/ ChannelOpenSessionErr
    \/ TermsizeNone
    \/ RequestPtyOk
    \/ RequestPtyErr
    \/ ExecOk
    \/ ExecErr
    \/ WaitNone
    \/ WaitData
    \/ WaitDataErr
    \/ WaitExtendedData
    \/ WaitExtendedDataErr
    \/ WaitSuccess
    \/ WaitClose
    \/ \E c \in ExitCodes : WaitExitStatus(c)
    \/ \E c \in ExitCodes : WaitExitStatusEofErr(c)
    \/ WaitUnknown
    \/ CloseOk
    \/ CloseErr

Spec == Init /\ [][Next]_vars

\* a step of TcpForwardSession::connect
ConnectStep ==
    \/ ConnectAttempt
    \/ \E key \in ServerKeys : ClientConnectOk(key)
    \/ ClientConnectErr
    \/ SleepDone
    \/ AuthOk
    \/ AuthRejected
    \/ AuthErr

\* Every connection attempt, authentication exchange and sleep of
\* connect comes to an end.
FairConnectSpec == Spec /\ WF_vars(ConnectStep)

(* ------------- Client::server_channel_open_forwarded_tcpip ------------- *)

\* u16::MAX: what `originator_port.try_into().unwrap()` accepts
MaxPort == 65535

\* originator addresses and ports a notification may carry
Addresses == {"203.0.113.7", "fe80::1%eth0"}
\* the port the remote's b-th connection comes from: concurrent
\* connections of one host have different ports
OriginatorPort(b) == MaxPort - MaxBridges + b
Ports(b) == {OriginatorPort(b), MaxPort + 1}

\* `originator_address.parse()` into an IpAddr: a zone id does not parse
ParsesAsIp(a) == a \in {"203.0.113.7"}

\* the IpAddr it parses into (its octets)
ParseIp(a) == IF a = "203.0.113.7" THEN <<203, 0, 113, 7>> ELSE <<>>

\* SocketAddr::new(ip, port)
SocketAddr(ip, port) == <<ip, port>>

\* tcpip_forward was accepted on the current session and its task runs:
\* the remote may open forwarded-tcpip channels
ForwardingEstablished ==
    /\ session_task = "running"
    /\ pc \in {"channel_open_session", "request_pty", "exec", "wait",
               "close"}
    /\ fwd_result # "Err_tcpip_forward"

\* channel ids are handed out in order
NextChannel ==
    Cardinality({b \in BridgeIds : bridge[b] # "none"}) + 1

\* mutant: the service is made for the port the connection arrived at
\* on the remote host, the same for every connection
ServerChannelOpenForwardedTcpip_connected_port(b, addr, port) ==
    /\ ForwardingEstablished
    /\ b = NextChannel
    /\ IF ParsesAsIp(addr) /\ port <= MaxPort
       THEN /\ bridge' = [bridge EXCEPT ![b] = "idle"]
            /\ conn_info' = [conn_info EXCEPT
                                ![b] = SocketAddr(ParseIp(addr), 80)]
            /\ UNCHANGED <<session_task, chan_closed>>
       ELSE /\ bridge' = [bridge EXCEPT ![b] = "no_task"]
            /\ session_task' = "panicked"
            /\ chan_closed' = [AllChannelsClosed EXCEPT ![b] = TRUE]
            /\ UNCHANGED conn_info
    /\ UNCHANGED <<pc, ret, request_pty, cycle, prev_consumed, sessions,
                   close_vars, secret_key, last_msg, pending_failure,
                   chan_in, served, chan_out>>
    /\ UNCHANGED connect_vars
    /\ UNCHANGED fwd_vars
    /\ UNCHANGED service_vars

\* The handler, run by the session task for one forwarded-tcpip open
\* (ROUTER is set: main.rs:85-90 sets it before ssh_entrypoint).  The two
\* unwraps panic on an address that is no IP address or a port above
\* u16::MAX: the session task dies and with it the transport.  Otherwise
\* the bridge task is spawned and the handler returns Ok at once.
ServerChannelOpenForwardedTcpip(b, addr, port) ==
    /\ ForwardingEstablished
    /\ b = NextChannel
    /\ IF ParsesAsIp(addr) /\ port <= MaxPort
       THEN /\ bridge' = [bridge EXCEPT ![b] = "idle"]
            /\ conn_info' = [conn_info EXCEPT
                                ![b] = SocketAddr(ParseIp(addr), port)]
            /\ UNCHANGED <<session_task, chan_closed>>
       ELSE /\ bridge' = [bridge EXCEPT ![b] = "no_task"]
            /\ session_task' = "panicked"
            /\ chan_closed' = [AllChannelsClosed EXCEPT ![b] = TRUE]
            /\ UNCHANGED conn_info
    /\ UNCHANGED <<pc, ret, request_pty, cycle, prev_consumed, sessions,
                   close_vars, secret_key, last_msg, pending_failure,
                   chan_in, served, chan_out>>
    /\ UNCHANGED connect_vars
    /\ UNCHANGED fwd_vars
    /\ UNCHANGED service_vars

(* --------------------------- Channel Bridge ---------------------------- *)
(* The spawned task: serve_connection_with_upgrades over the channel's     *)
(* stream, every request given to the Router, `.expect("Invalid request")` *)
(* on its result.  A request is <<channel, n>>, the n-th the remote sent   *)
(* on that channel; <<channel, 0>> is bytes that are no HTTP request.  The *)
(* Router's answer to a request is the request again (an echo).            *)

Running == {"idle", "in_service"}

RECURSIVE SentUpTo(_)
SentUpTo(b) ==
    IF b = 0 THEN 0
    ELSE Len(served[b]) + Len(chan_in[b]) + SentUpTo(b - 1)

\* requests the remote has sent on all channels
TotalSent == SentUpTo(MaxBridges)

main_vars == <<pc, ret, request_pty, cycle, prev_consumed, sessions,
               close_vars, secret_key, last_msg, pending_failure,
               session_task>>

\* the remote sends its next request on channel b
RemoteSends(b) ==
    /\ bridge[b] \in Running
    /\ ~chan_closed[b]
    /\ TotalSent < MaxReqs
    /\ chan_in' = [chan_in EXCEPT ![b] =
                      Append(@, <<b, Len(served[b]) + Len(@) + 1>>)]
    /\ UNCHANGED <<bridge, chan_closed, served, chan_out>>
    /\ UNCHANGED main_vars
    /\ UNCHANGED connect_vars
    /\ UNCHANGED fwd_vars
    /\ UNCHANGED conn_info
    /\ UNCHANGED service_vars

\* the remote sends bytes that are no HTTP request on channel b
RemoteSendsGarbage(b) ==
    /\ bridge[b] \in Running
    /\ ~chan_closed[b]
    /\ TotalSent < MaxReqs
    /\ chan_in' = [chan_in EXCEPT ![b] = Append(@, <<b, 0>>)]
    /\ UNCHANGED <<bridge, chan_closed, served, chan_out>>
    /\ UNCHANGED main_vars
    /\ UNCHANGED connect_vars
    /\ UNCHANGED fwd_vars
    /\ UNCHANGED conn_info
    /\ UNCHANGED service_vars

\* the remote (or the peer behind it) closes channel b
RemoteCloses(b) ==
    /\ bridge[b] \in Running
    /\ ~chan_closed[b]
    /\ chan_closed' = [chan_closed EXCEPT ![b] = TRUE]
    /\ UNCHANGED <<bridge, chan_in, served, chan_out>>
    /\ UNCHANGED main_vars
    /\ UNCHANGED connect_vars
    /\ UNCHANGED fwd_vars
    /\ UNCHANGED conn_info
    /\ UNCHANGED service_vars

\* mutant: the connection is served on the session task, so the panic of
\* `.expect` takes the session down
BridgeReads_panic_kills_session(b) ==
    /\ bridge[b] = "idle"
    /\ chan_in[b] # <<>>
    /\ chan_in' = [chan_in EXCEPT ![b] = Tail(@)]
    /\ IF Head(chan_in[b])[2] = 0
       THEN /\ bridge' = [bridge EXCEPT ![b] = "panicked"]
            /\ session_task' = "panicked"
            /\ chan_closed' = AllChannelsClosed
            /\ UNCHANGED served
       ELSE /\ bridge' = [bridge EXCEPT ![b] = "in_service"]
            /\ served' = [served EXCEPT ![b] = Append(@, Head(chan_in[b]))]
            /\ UNCHANGED <<session_task, chan_closed>>
    /\ UNCHANGED chan_out
    /\ UNCHANGED <<pc, ret, request_pty, cycle, prev_consumed, sessions,
                   close_vars, secret_key, last_msg, pending_failure>>
    /\ UNCHANGED connect_vars
    /\ UNCHANGED fwd_vars
    /\ UNCHANGED conn_info
    /\ UNCHANGED service_vars

\* mutant: the newest request waiting on the channel is taken first
BridgeReads_reorders(b) ==
    /\ bridge[b] = "idle"
    /\ chan_in[b] # <<>>
    /\ chan_in' = [chan_in EXCEPT ![b] = SubSeq(@, 1, Len(@) - 1)]
    /\ IF chan_in[b][Len(chan_in[b])][2] = 0
       THEN /\ bridge' = [bridge EXCEPT ![b] = "panicked"]
            /\ UNCHANGED served
       ELSE /\ bridge' = [bridge EXCEPT ![b] = "in_service"]
            /\ served' = [served EXCEPT
                             ![b] = Append(@, chan_in[b][Len(chan_in[b])])]
    /\ UNCHANGED <<chan_closed, chan_out>>
    /\ UNCHANGED main_vars
    /\ UNCHANGED connect_vars
    /\ UNCHANGED fwd_vars
    /\ UNCHANGED conn_info
    /\ UNCHANGED service_vars

\* The bridge reads the next request of its channel and calls the Router
\* with it; bytes that are no request make serve_connection return Err,
\* on which `.expect` panics the task.
BridgeReads(b) ==
    /\ bridge[b] = "idle"
    /\ chan_in[b] # <<>>
    /\ chan_in' = [chan_in EXCEPT ![b] = Tail(@)]
    /\ IF Head(chan_in[b])[2] = 0
       THEN /\ bridge' = [bridge EXCEPT ![b] = "panicked"]
            /\ UNCHANGED served
       ELSE /\ bridge' = [bridge EXCEPT ![b] = "in_service"]
            /\ served' = [served EXCEPT ![b] = Append(@, Head(chan_in[b]))]
    /\ UNCHANGED <<chan_closed, chan_out>>
    /\ UNCHANGED main_vars
    /\ UNCHANGED connect_vars
    /\ UNCHANGED fwd_vars
    /\ UNCHANGED conn_info
    /\ UNCHANGED service_vars

\* mutant: one request is answered at a time, over all connections
ServiceResponds_serialised(b) ==
    /\ bridge[b] = "in_service"
    /\ \A o \in BridgeIds \ {b} : bridge[o] # "in_service"
    /\ IF chan_closed[b]
       THEN /\ bridge' = [bridge EXCEPT ![b] = "panicked"]
            /\ UNCHANGED chan_out
       ELSE /\ bridge' = [bridge EXCEPT ![b] = "idle"]
            /\ chan_out' = [chan_out EXCEPT
                               ![b] = Append(@, served[b][Len(served[b])])]
    /\ UNCHANGED <<chan_closed, chan_in, served>>
    /\ UNCHANGED main_vars
    /\ UNCHANGED connect_vars
    /\ UNCHANGED fwd_vars
    /\ UNCHANGED conn_info
    /\ UNCHANGED service_vars

\* mutant: the answer is written to the channel of the next connection
ServiceResponds_crosstalk(b) ==
    /\ bridge[b] = "in_service"
    /\ IF chan_closed[b]
       THEN /\ bridge' = [bridge EXCEPT ![b] = "panicked"]
            /\ UNCHANGED chan_out
       ELSE /\ bridge' = [bridge EXCEPT ![b] = "idle"]
            /\ chan_out' = [chan_out EXCEPT
                               ![(b % MaxBridges) + 1] =
                                   Append(@, served[b][Len(served[b])])]
    /\ UNCHANGED <<chan_closed, chan_in, served>>
    /\ UNCHANGED main_vars
    /\ UNCHANGED connect_vars
    /\ UNCHANGED fwd_vars
    /\ UNCHANGED conn_info
    /\ UNCHANGED service_vars

\* The Router answers the request in service on channel b and the bridge
\* writes the answer to its channel; on a closed channel the write fails,
\* serve_connection returns Err and `.expect` panics the task.
ServiceResponds(b) ==
    /\ bridge[b] = "in_service"
    /\ IF chan_closed[b]
       THEN /\ bridge' = [bridge EXCEPT ![b] = "panicked"]
            /\ UNCHANGED chan_out
       ELSE /\ bridge' = [bridge EXCEPT ![b] = "idle"]
            /\ chan_out' = [chan_out EXCEPT
                               ![b] = Append(@, served[b][Len(served[b])])]
    /\ UNCHANGED <<chan_closed, chan_in, served>>
    /\ UNCHANGED main_vars
    /\ UNCHANGED connect_vars
    /\ UNCHANGED fwd_vars
    /\ UNCHANGED conn_info
    /\ UNCHANGED service_vars

\* end of stream between two requests: serve_connection returns Ok and the
\* task ends
BridgeEndOfStream(b) ==
    /\ bridge[b] = "idle"
    /\ chan_closed[b]
    /\ chan_in[b] = <<>>
    /\ bridge' = [bridge EXCEPT ![b] = "ended"]
    /\ UNCHANGED <<chan_closed, chan_in, served, chan_out>>
    /\ UNCHANGED main_vars
    /\ UNCHANGED connect_vars
    /\ UNCHANGED fwd_vars
    /\ UNCHANGED conn_info
    /\ UNCHANGED service_vars

\* The channel closed while the Router still works on a request and the
\* connection notices it first: serve_connection returns Ok (the task
\* ends) or Err (`.expect` panics the task), as hyper decides.
BridgeClosedMidRequest(b, is_err) ==
    /\ bridge[b] = "in_service"
    /\ chan_closed[b]
    /\ bridge' = [bridge EXCEPT
                     ![b] = IF is_err THEN "panicked" ELSE "ended"]
    /\ UNCHANGED <<chan_closed, chan_in, served, chan_out>>
    /\ UNCHANGED main_vars
    /\ UNCHANGED connect_vars
    /\ UNCHANGED fwd_vars
    /\ UNCHANGED conn_info
    /\ UNCHANGED service_vars

(* ------------- one session and its forwarded connections --------------- *)

\* The state of Spec in which the first iteration has connected and
\* authenticated at its first attempt, with no remote command configured.
BridgeInit ==
    /\ pc = "tcpip_forward"
    /\ ret = "none"
    /\ request_pty = FALSE
    /\ cycle = 1
    /\ reconnect_attempt = 0
    /\ attempts = 1
    /\ sleeping = 0
    /\ events = <<<<"attempt", 1>>, <<"connected", 1>>, <<"auth_ok", 1>>>>
    /\ connect_result = "Ok"
    /\ prev_consumed = 0
    /\ sessions = [s \in SessionIds |->
                      IF s = 1 THEN "Forwarding" ELSE "NotCreated"]
    /\ close_attempts = [s \in SessionIds |-> 0]
    /\ close_result = "none"
    /\ fwd_step = <<>>
    /\ fwd_result = "none"
    /\ fwd_code = 0
    /\ wait_msgs = 0
    /\ stdout = <<>>
    /\ stderr = <<>>
    /\ secret_key = "decoded"
    /\ last_msg = NoMsg
    /\ pending_failure = FALSE
    /\ session_task = "running"
    /\ bridge = [b \in BridgeIds |-> "none"]
    /\ chan_closed = [b \in BridgeIds |-> FALSE]
    /\ chan_in = [b \in BridgeIds |-> <<>>]
    /\ served = [b \in BridgeIds |-> <<>>]
    /\ chan_out = [b \in BridgeIds |-> <<>>]
    /\ conn_info = [b \in BridgeIds |-> NoAddr]
    /\ host_key = NoKey
    /\ board_in = NoBoardIn
    /\ board_out = NoBoardOut
    /\ ServicesIdle

\* The session from there to the start of the next iteration, with the
\* forwarded connections the remote opens on it.
BridgeNext ==
    \/ TcpipForwardOk
    \/ TcpipForwardErr
    \/ ChannelOpenSessionOk
    \/ ChannelOpenSessionErr
    \/ WaitNone
    \/ WaitClose
    \/ WaitUnknown
    \/ CloseOk
    \/ CloseErr
    \/ LoopTop
    \/ \E b \in BridgeIds, a \in Addresses : \E p \in Ports(b) :
          ServerChannelOpenForwardedTcpip(b, a, p)
    \/ \E b \in BridgeIds : RemoteSends(b)
    \/ \E b \in BridgeIds : RemoteSendsGarbage(b)
    \/ \E b \in BridgeIds : RemoteCloses(b)
    \/ \E b \in BridgeIds : BridgeReads(b)
    \/ \E b \in BridgeIds : ServiceResponds(b)
    \/ \E b \in BridgeIds : BridgeEndOfStream(b)
    \/ \E b \in BridgeIds, e \in BOOLEAN : BridgeClosedMidRequest(b, e)

BridgeSpec == BridgeInit /\ [][BridgeNext]_vars

\* The session while it forwards and ends with the close of its auxiliary
\* channel, up to the start of the next iteration, with the forwarded
\* connections the remote opens on it.
ForwardingNext ==
    \/ TcpipForwardOk
    \/ ChannelOpenSessionOk
    \/ WaitClose
    \/ CloseOk
    \/ CloseErr
    \/ LoopTop
    \/ \E b \in BridgeIds, a \in Addresses : \E p \in Ports(b) :
          ServerChannelOpenForwardedTcpip(b, a, p)
    \/ \E b \in BridgeIds : RemoteSends(b)
    \/ \E b \in BridgeIds : RemoteSendsGarbage(b)
    \/ \E b \in BridgeIds : RemoteCloses(b)
    \/ \E b \in BridgeIds : BridgeReads(b)
    \/ \E b \in BridgeIds : ServiceResponds(b)
    \/ \E b \in BridgeIds : BridgeEndOfStream(b)
    \/ \E b \in BridgeIds, e \in BOOLEAN : BridgeClosedMidRequest(b, e)

\* Every spawned task is scheduled by the runtime, so a bridge that can
\* take a step of its own takes it, and the Router answers on the first
\* connection.  Nothing makes the Router answer on another connection or
\* the remote send or close: the code sets no timeout on either.
FairBridgeSpec ==
    /\ BridgeInit
    /\ [][ForwardingNext]_vars
    /\ \A b \in BridgeIds : WF_vars(BridgeReads(b))
    /\ \A b \in BridgeIds : WF_vars(BridgeEndOfStream(b))
    /\ \A b \in BridgeIds :
          WF_vars(\E e \in BOOLEAN : BridgeClosedMidRequest(b, e))
    /\ WF_vars(ServiceResponds(1))

(* ---------------------- nonogram::populate_board ----------------------- *)

\* u8::MAX: the largest value of a clue (Vec<Vec<u8>>)
U8Max == 255

\* `*last += 1` on a u8: with overflow checks (debug profile) the
\* addition panics at u8::MAX, without them (release profile) it wraps.
\* The result is <<panicked, sequence>>.
IncrementLast(seq, overflow_checks) ==
    LET last == seq[Len(seq)] IN
    IF last = U8Max /\ overflow_checks
    THEN <<TRUE, seq>>
    ELSE <<FALSE, [seq EXCEPT ![Len(seq)] = (last + 1) % (U8Max + 1)]>>

\* `retain(|&x| x > 0)`
RetainPositive(seq) == SelectSeq(seq, LAMBDA x : x > 0)

\* One pass of the body of the nested loops, for cell i (which is
\* row * columns + column); st holds vec_rows, vec_columns and whether
\* an addition or an index outside the solution has panicked.
FillCell(i, st, solution, columns, overflow_checks) ==
    LET row == (i \div columns) + 1
        column == (i % columns) + 1
    IN
    IF st.panicked
    THEN st
    ELSE IF i >= Len(solution)
    THEN [st EXCEPT !.panicked = TRUE]
    ELSE IF solution[i + 1] = 1
    THEN
        LET r == IncrementLast(st.vec_rows[row], overflow_checks)
            c == IncrementLast(st.vec_columns[column], overflow_checks)
        IN
        [vec_rows |-> [st.vec_rows EXCEPT ![row] = r[2]],
         vec_columns |-> [st.vec_columns EXCEPT ![column] = c[2]],
         panicked |-> r[1] \/ c[1]]
    ELSE
        [vec_rows |-> [st.vec_rows EXCEPT ![row] = Append(@, 0)],
         vec_columns |-> [st.vec_columns EXCEPT ![column] = Append(@, 0)],
         panicked |-> FALSE]

RECURSIVE FillCells(_, _, _, _, _, _)
\* The nested loops over the cells lo .. hi - 1 in order, row by row, up
\* to the first addition that panics (the range is cut in two so that the
\* evaluation stays shallow).
FillCells(lo, hi, st, solution, columns, overflow_checks) ==
    IF hi <= lo
    THEN st
    ELSE IF hi = lo + 1
    THEN FillCell(lo, st, solution, columns, overflow_checks)
    ELSE
        LET mid == (lo + hi) \div 2
            first == FillCells(lo, mid, st, solution, columns,
                               overflow_checks)
        IN
        IF first.panicked
        THEN first
        ELSE FillCells(mid, hi, first, solution, columns, overflow_checks)

InvalidBoardSize ==
    [status |-> "Err", rows |-> <<>>, columns |-> <<>>, solution |-> <<>>]

\* populate_board after its size check: the loops over the rows * columns
\* cells, the two `retain`s and the board
populate_cells(solution, rows, columns, overflow_checks) ==
    LET st == FillCells(0, rows * columns,
                        [vec_rows |-> [r \in 1..rows |-> <<0>>],
                         vec_columns |-> [c \in 1..columns |-> <<0>>],
                         panicked |-> FALSE],
                        solution, columns, overflow_checks)
    IN
    IF st.panicked
    THEN [status |-> "Panic", rows |-> <<>>, columns |-> <<>>,
          solution |-> <<>>]
    ELSE [status |-> "Ok",
          rows |-> [r \in 1..rows |-> RetainPositive(st.vec_rows[r])],
          columns |->
              [c \in 1..columns |-> RetainPositive(st.vec_columns[c])],
          solution |-> solution]

\* as populate_board, refusing only a solution that is too short
populate_board_accepts_longer(solution, rows, columns, overflow_checks) ==
    IF Len(solution) < rows * columns
    THEN InvalidBoardSize
    ELSE populate_cells(solution, rows, columns, overflow_checks)

\* populate_board(solution, rows, columns): Err("Invalid board size.") when
\* the length is not rows * columns, otherwise the clues of the rows and
\* of the columns and a copy of the solution.
populate_board(solution, rows, columns, overflow_checks) ==
    IF Len(solution) # rows * columns
    THEN InvalidBoardSize
    ELSE populate_cells(solution, rows, columns, overflow_checks)

\* the solutions given for a board of rows by columns cells: every grid
\* of the right length, one bit short or one bit long
Solutions(rows, columns) ==
    UNION {[1..n -> {0, 1}] :
              n \in {m \in {rows * columns - 1, rows * columns,
                             rows * columns + 1} : m >= 0}}

\* boards of one line, all cells set, as long as a u8 can count, one
\* longer and two longer
LongBoards ==
    UNION {{[rows |-> 1, columns |-> w, solution |-> [i \in 1..w |-> 1],
             overflow_checks |-> oc],
            [rows |-> w, columns |-> 1, solution |-> [i \in 1..w |-> 1],
             overflow_checks |-> oc]} :
              w \in {U8Max, U8Max + 1, U8Max + 2}, oc \in BOOLEAN}

\* the inputs of populate_board: every board of up to MaxRows rows and
\* MaxCols columns, and the long lines
BoardInputs(in) ==
    \/ in \in LongBoards
    \/ \E r \in 0..MaxRows, c \in 0..MaxCols :
          \E sol \in Solutions(r, c), oc \in BOOLEAN :
              in = [rows |-> r, columns |-> c, solution |-> sol,
                    overflow_checks |-> oc]

\* the variables of the tunnel client
tunnel_vars == <<main_vars, connect_vars, fwd_vars, chan_closed, data_vars>>

\* the tunnel client before ssh_entrypoint has done anything (as in Init,
\* with no remote command configured)
TunnelIdle ==
    /\ pc = "read_key"
    /\ ret = "none"
    /\ request_pty = FALSE
    /\ cycle = 0
    /\ reconnect_attempt = 0
    /\ attempts = 0
    /\ sleeping = 0
    /\ events = <<>>
    /\ connect_result = "none"
    /\ prev_consumed = 0
    /\ sessions = [s \in SessionIds |-> "NotCreated"]
    /\ close_attempts = [s \in SessionIds |-> 0]
    /\ close_result = "none"
    /\ fwd_step = <<>>
    /\ fwd_result = "none"
    /\ fwd_code = 0
    /\ wait_msgs = 0
    /\ stdout = <<>>
    /\ stderr = <<>>
    /\ secret_key = "unread"
    /\ last_msg = NoMsg
    /\ pending_failure = FALSE
    /\ session_task = "none"
    /\ bridge = [b \in BridgeIds |-> "none"]
    /\ chan_closed = [b \in BridgeIds |-> FALSE]
    /\ chan_in = [b \in BridgeIds |-> <<>>]
    /\ served = [b \in BridgeIds |-> <<>>]
    /\ chan_out = [b \in BridgeIds |-> <<>>]
    /\ conn_info = [b \in BridgeIds |-> NoAddr]
    /\ host_key = NoKey

\* one call of populate_board
PopulateBoard ==
    /\ board_out.status = "none"
    /\ board_out' = populate_board(board_in.solution, board_in.rows,
                                   board_in.columns,
                                   board_in.overflow_checks)
    /\ UNCHANGED board_in
    /\ UNCHANGED tunnel_vars
    /\ UNCHANGED <<cb_vars, np_vars>>

\* populate_board on its own: a call with any of the inputs
BoardInit ==
    /\ TunnelIdle
    /\ BoardInputs(board_in)
    /\ board_out = NoBoardOut
    /\ ServicesIdle

BoardNext == PopulateBoard

BoardSpec == BoardInit /\ [][BoardNext]_vars

(* ----------------------- the Checkboxes service ------------------------ *)

\* A request reaches its handler: the handler task is about to lock
\* state.checkboxes (ids are Path<usize>).
CheckboxRequest(op, id) ==
    /\ Cardinality(cb_handlers) < MaxCbInFlight
    /\ [op |-> op, id |-> id, pc |-> "lock"] \notin cb_handlers
    /\ cb_handlers' = cb_handlers \cup {[op |-> op, id |-> id, pc |-> "lock"]}
    /\ UNCHANGED <<cb_usize_bits, cb_checkboxes, cb_last, cb_resp>>
    /\ UNCHANGED tunnel_vars
    /\ UNCHANGED <<board_vars, np_vars>>

\* state.checkboxes.lock(): the handler gets the mutex when no other
\* handler holds it
CheckboxLock(h) ==
    /\ h \in cb_handlers
    /\ h.pc = "lock"
    /\ \A o \in cb_handlers : o.pc # "locked"
    /\ cb_handlers' = (cb_handlers \ {h}) \cup {[h EXCEPT !.pc = "locked"]}
    /\ UNCHANGED <<cb_usize_bits, cb_checkboxes, cb_last, cb_resp>>
    /\ UNCHANGED tunnel_vars
    /\ UNCHANGED <<board_vars, np_vars>>

\* BitSlice::get_mut(id) on the array: None for an index that is not
\* smaller than its length
get_mut_is_some(id) == id < StorageBits(cb_usize_bits)

\* mark_checkbox with the mutex held, to its return (which unlocks)
checkbox_mark_checkbox(h) ==
    /\ h \in cb_handlers
    /\ h.pc = "locked"
    /\ h.op = "mark"
    /\ IF get_mut_is_some(h.id)
       THEN /\ cb_checkboxes' = cb_checkboxes \cup {h.id}
            /\ cb_last' = [cb_last EXCEPT ![h.id] = "mark"]
            /\ cb_resp' = [op |-> "mark", id |-> h.id, status |-> "OK",
                           checked |-> {h.id}]
       ELSE /\ cb_resp' = [op |-> "mark", id |-> h.id,
                           status |-> "NOT_FOUND", checked |-> {}]
            /\ UNCHANGED <<cb_checkboxes, cb_last>>
    /\ cb_handlers' = cb_handlers \ {h}
    /\ UNCHANGED cb_usize_bits
    /\ UNCHANGED tunnel_vars
    /\ UNCHANGED <<board_vars, np_vars>>

\* as unmark_checkbox, clearing the whole array
checkbox_unmark_checkbox_clears_all(h) ==
    /\ h \in cb_handlers
    /\ h.pc = "locked"
    /\ h.op = "unmark"
    /\ IF get_mut_is_some(h.id)
       THEN /\ cb_checkboxes' = {}
            /\ cb_last' = [cb_last EXCEPT ![h.id] = "unmark"]
            /\ cb_resp' = [op |-> "unmark", id |-> h.id, status |-> "OK",
                           checked |-> {}]
       ELSE /\ cb_resp' = [op |-> "unmark", id |-> h.id,
                           status |-> "NOT_FOUND", checked |-> {}]
            /\ UNCHANGED <<cb_checkboxes, cb_last>>
    /\ cb_handlers' = cb_handlers \ {h}
    /\ UNCHANGED cb_usize_bits
    /\ UNCHANGED tunnel_vars
    /\ UNCHANGED <<board_vars, np_vars>>

\* unmark_checkbox with the mutex held, to its return (which unlocks)
checkbox_unmark_checkbox(h) ==
    /\ h \in cb_handlers
    /\ h.pc = "locked"
    /\ h.op = "unmark"
    /\ IF get_mut_is_some(h.id)
       THEN /\ cb_checkboxes' = cb_checkboxes \ {h.id}
            /\ cb_last' = [cb_last EXCEPT ![h.id] = "unmark"]
            /\ cb_resp' = [op |-> "unmark", id |-> h.id, status |-> "OK",
                           checked |-> {}]
       ELSE /\ cb_resp' = [op |-> "unmark", id |-> h.id,
                           status |-> "NOT_FOUND", checked |-> {}]
            /\ UNCHANGED <<cb_checkboxes, cb_last>>
    /\ cb_handlers' = cb_handlers \ {h}
    /\ UNCHANGED cb_usize_bits
    /\ UNCHANGED tunnel_vars
    /\ UNCHANGED <<board_vars, np_vars>>

\* all_checkboxes with the mutex held: the first
\* CHECKBOX_WIDTH*CHECKBOX_HEIGHT bits of the array, each rendered checked
\* or unchecked
all_checkboxes(h) ==
    /\ h \in cb_handlers
    /\ h.pc = "locked"
    /\ h.op = "all"
    /\ cb_resp' = [op |-> "all", id |-> 0, status |-> "OK",
                   checked |-> {i \in cb_checkboxes :
                                  i < CHECKBOX_WIDTH * CHECKBOX_HEIGHT}]
    /\ cb_handlers' = cb_handlers \ {h}
    /\ UNCHANGED <<cb_usize_bits, cb_checkboxes, cb_last>>
    /\ UNCHANGED tunnel_vars
    /\ UNCHANGED <<board_vars, np_vars>>

\* the handler records a request can become
CheckboxHandlers ==
    {[op |-> op, id |-> id, pc |-> p] :
        op \in {"mark", "unmark"}, id \in CheckboxIds,
        p \in {"lock", "locked"}}
        \cup {[op |-> "all", id |-> 0, pc |-> p] : p \in {"lock", "locked"}}

\* the Checkboxes service under concurrent requests
CheckboxServiceInit ==
    /\ TunnelIdle
    /\ board_in = NoBoardIn
    /\ board_out = NoBoardOut
    /\ CheckboxInit
    /\ MultipaintIdle

CheckboxNext ==
    \/ \E op \in {"mark", "unmark"}, id \in CheckboxIds :
          CheckboxRequest(op, id)
    \/ CheckboxRequest("all", 0)
    \/ \E h \in CheckboxHandlers : CheckboxLock(h)
    \/ \E h \in CheckboxHandlers : checkbox_mark_checkbox(h)
    \/ \E h \in CheckboxHandlers : checkbox_unmark_checkbox(h)
    \/ \E h \in CheckboxHandlers : all_checkboxes(h)

CheckboxSpec == CheckboxServiceInit /\ [][CheckboxNext]_vars

(* ----------------------- the Multipaint service ------------------------ *)

\* the puzzles of the site, as get_puzzle_data reads them from their
\* pages: rows, columns and solution
PuzzleBoards ==
    << [rows |-> 1, columns |-> 1, solution |-> <<1>>],
       [rows |-> 1, columns |-> 2, solution |-> <<1, 0>>] >>

\* NONOGRAMMED_PUZZLE_LIST
PuzzleIds == 1..Len(PuzzleBoards)

\* get_puzzle_data(id) when it succeeds: the clues of populate_board and
\* the solution
NonogrammedPuzzle(id) ==
    LET board == populate_board(PuzzleBoards[id].solution,
                                PuzzleBoards[id].rows,
                                PuzzleBoards[id].columns, FALSE)
    IN
    [id |-> id, rows |-> board.rows, columns |-> board.columns,
     solution |-> board.solution]

Puzzles == [id \in PuzzleIds |-> NonogrammedPuzzle(id)]

\* rows.len() * columns.len() of a puzzle
Cells(id) == Len(Puzzles[id].rows) * Len(Puzzles[id].columns)

\* vec![CheckboxState::Empty; rows * columns]
EmptyBoard(id) == [i \in 1..Cells(id) |-> "Empty"]

\* the ids the requests are made with: the cells of the largest board and
\* the first id after it
RequestIds ==
    0..(CHOOSE n \in {Cells(id) : id \in PuzzleIds} :
            \A id \in PuzzleIds : Cells(id) <= n)

\* check_if_solved's count of wrong squares is zero: over the pairs that
\* zip gives (as many as the shorter of the two has), the solution bit is
\* set exactly where the checkbox is Marked
NoWrongSquares(solution, checkboxes) ==
    \A i \in 1..Len(solution) :
        i <= Len(checkboxes) =>
            ((solution[i] = 1) <=> (checkboxes[i] = "Marked"))

\* tokio::spawn in wait_and_start_new_puzzle: one more task, spawned for
\* the puzzle that is current
TaskRoom == \E t \in TaskIds : np_tasks[t].pc = "none"
wait_and_start_new_puzzle ==
    LET t == CHOOSE t \in TaskIds :
                 /\ np_tasks[t].pc = "none"
                 /\ \A u \in TaskIds : u < t => np_tasks[u].pc # "none"
    IN [np_tasks EXCEPT ![t] = [pc |-> "pending", current |-> TRUE]]

\* the state get_router leaves: the first puzzle that could be fetched,
\* its board empty, its timer started
MultipaintInit ==
    /\ np_state = "Unsolved"
    /\ np_puzzle \in PuzzleIds
    /\ np_checkboxes = EmptyBoard(np_puzzle)
    /\ np_timer = "sleeping"
    /\ np_stale_timers = 0
    /\ np_tasks = [t \in TaskIds |-> NoTask]
    /\ np_handlers = {}
    /\ np_resp = NoNpResp

\* what the steps of the Multipaint service leave alone
NotMultipaint ==
    /\ UNCHANGED tunnel_vars
    /\ UNCHANGED <<board_vars, cb_vars>>

\* flag_checkbox: the whole call, with the mutex of the nonogram held
flag_checkbox(id) ==
    /\ IF id >= Len(np_checkboxes)
       THEN /\ np_resp' = "NOT_FOUND"
            /\ UNCHANGED np_checkboxes
       ELSE IF np_state = "Unsolved" /\ np_checkboxes[id + 1] = "Empty"
       THEN /\ np_checkboxes' = [np_checkboxes EXCEPT ![id + 1] = "Flagged"]
            /\ np_resp' = "OK"
       ELSE /\ np_resp' = "OK"
            /\ UNCHANGED np_checkboxes
    /\ UNCHANGED <<np_state, np_puzzle, np_timer, np_stale_timers, np_tasks,
                   np_handlers>>
    /\ NotMultipaint

\* unflag_checkbox: the whole call, with the mutex of the nonogram held
unflag_checkbox(id) ==
    /\ IF id >= Len(np_checkboxes)
       THEN /\ np_resp' = "NOT_FOUND"
            /\ UNCHANGED np_checkboxes
       ELSE IF np_state = "Unsolved" /\ np_checkboxes[id + 1] = "Flagged"
       THEN /\ np_checkboxes' = [np_checkboxes EXCEPT ![id + 1] = "Empty"]
            /\ np_resp' = "OK"
       ELSE /\ np_resp' = "OK"
            /\ UNCHANGED np_checkboxes
    /\ UNCHANGED <<np_state, np_puzzle, np_timer, np_stale_timers, np_tasks,
                   np_handlers>>
    /\ NotMultipaint

\* a call that has changed a cell, cloned the checkboxes and dropped the
\* guard, before its check_if_solved; `current` tells whether the puzzle
\* it changed is still the current one
CheckPending(checkboxes) ==
    [current |-> TRUE, checkboxes |-> checkboxes, pc |-> "check"]

\* as mark_checkbox, marking in the Solved and Failed states too
multipaint_mark_checkbox_any_state(id) ==
    IF id >= Len(np_checkboxes)
    THEN /\ np_resp' = "NOT_FOUND"
         /\ UNCHANGED <<np_state, np_checkboxes, np_puzzle, np_timer,
                        np_stale_timers, np_tasks, np_handlers>>
         /\ NotMultipaint
    ELSE IF np_checkboxes[id + 1] # "Marked"
    THEN /\ Cardinality(np_handlers) < MaxInFlight
         /\ np_checkboxes' = [np_checkboxes EXCEPT ![id + 1] = "Marked"]
         /\ np_handlers' = np_handlers \cup
                {CheckPending([np_checkboxes EXCEPT ![id + 1] = "Marked"])}
         /\ UNCHANGED <<np_state, np_puzzle, np_timer, np_stale_timers,
                        np_tasks, np_resp>>
         /\ NotMultipaint
    ELSE /\ np_resp' = "OK"
         /\ UNCHANGED <<np_state, np_checkboxes, np_puzzle, np_timer,
                        np_stale_timers, np_tasks, np_handlers>>
         /\ NotMultipaint

\* mark_checkbox from its lock to `drop(nonogram)`, or to its return when
\* it changes nothing
multipaint_mark_checkbox(id) ==
    IF id >= Len(np_checkboxes)
    THEN /\ np_resp' = "NOT_FOUND"
         /\ UNCHANGED <<np_state, np_checkboxes, np_puzzle, np_timer,
                        np_stale_timers, np_tasks, np_handlers>>
         /\ NotMultipaint
    ELSE IF np_state = "Unsolved" /\ np_checkboxes[id + 1] # "Marked"
    THEN /\ Cardinality(np_handlers) < MaxInFlight
         /\ np_checkboxes' = [np_checkboxes EXCEPT ![id + 1] = "Marked"]
         /\ np_handlers' = np_handlers \cup
                {CheckPending([np_checkboxes EXCEPT ![id + 1] = "Marked"])}
         /\ UNCHANGED <<np_state, np_puzzle, np_timer, np_stale_timers,
                        np_tasks, np_resp>>
         /\ NotMultipaint
    ELSE /\ np_resp' = "OK"
         /\ UNCHANGED <<np_state, np_checkboxes, np_puzzle, np_timer,
                        np_stale_timers, np_tasks, np_handlers>>
         /\ NotMultipaint

\* unmark_checkbox from its lock to `drop(nonogram)`, or to its return
\* when it changes nothing
multipaint_unmark_checkbox(id) ==
    IF id >= Len(np_checkboxes)
    THEN /\ np_resp' = "NOT_FOUND"
         /\ UNCHANGED <<np_state, np_checkboxes, np_puzzle, np_timer,
                        np_stale_timers, np_tasks, np_handlers>>
         /\ NotMultipaint
    ELSE IF np_state = "Unsolved" /\ np_checkboxes[id + 1] = "Marked"
    THEN /\ Cardinality(np_handlers) < MaxInFlight
         /\ np_checkboxes' = [np_checkboxes EXCEPT ![id + 1] = "Empty"]
         /\ np_handlers' = np_handlers \cup
                {CheckPending([np_checkboxes EXCEPT ![id + 1] = "Empty"])}
         /\ UNCHANGED <<np_state, np_puzzle, np_timer, np_stale_timers,
                        np_tasks, np_resp>>
         /\ NotMultipaint
    ELSE /\ np_resp' = "OK"
         /\ UNCHANGED <<np_state, np_checkboxes, np_puzzle, np_timer,
                        np_stale_timers, np_tasks, np_handlers>>
         /\ NotMultipaint

\* check_if_solved in mark_checkbox and unmark_checkbox, with the solution
\* of the puzzle the watch channel holds now: when no square is wrong it
\* calls wait_and_start_new_puzzle and the handler goes on to write
\* Solved, otherwise the handler returns
check_if_solved(h) ==
    /\ h \in np_handlers
    /\ h.pc = "check"
    /\ IF NoWrongSquares(Puzzles[np_puzzle].solution, h.checkboxes)
       THEN /\ TaskRoom
            /\ np_tasks' = wait_and_start_new_puzzle
            /\ np_handlers' = (np_handlers \ {h}) \cup
                   {[h EXCEPT !.pc = "write_solved", !.checkboxes = <<>>]}
            /\ UNCHANGED np_resp
       ELSE /\ np_handlers' = np_handlers \ {h}
            /\ np_resp' = "OK"
            /\ UNCHANGED np_tasks
    /\ UNCHANGED <<np_state, np_checkboxes, np_puzzle, np_timer,
                   np_stale_timers>>
    /\ NotMultipaint

\* `state.nonogram.lock().unwrap().state = NonogramState::Solved(..)` and
\* the return of the handler
write_solved(h) ==
    /\ h \in np_handlers
    /\ h.pc = "write_solved"
    /\ np_state' = "Solved"
    /\ np_handlers' = np_handlers \ {h}
    /\ np_resp' = "OK"
    /\ UNCHANGED <<np_checkboxes, np_puzzle, np_timer, np_stale_timers,
                   np_tasks>>
    /\ NotMultipaint

\* the nonogram handler from its lock to `drop(nonogram)`: it has cloned
\* the checkboxes
nonogram_clone ==
    /\ Cardinality(np_handlers) < MaxInFlight
    /\ np_handlers' = np_handlers \cup
           {[current |-> TRUE, checkboxes |-> np_checkboxes,
             pc |-> "render"]}
    /\ UNCHANGED <<np_state, np_checkboxes, np_puzzle, np_timer,
                   np_stale_timers, np_tasks, np_resp>>
    /\ NotMultipaint

\* the rows of a puzzle for which `&checkboxes[i * columns_len..(i + 1) *
\* columns_len]` is out of range
RowsOutOfRange(puzzle, checkboxes) ==
    {i \in 0..(Len(puzzle.rows) - 1) :
        (i + 1) * Len(puzzle.columns) > Len(checkboxes)}

\* the nonogram handler from `state.puzzle.borrow()` on: it renders the
\* rows of the puzzle the watch channel holds now, each with its slice of
\* the cloned checkboxes; a slice out of range panics
nonogram_render(h) ==
    /\ h \in np_handlers
    /\ h.pc = "render"
    /\ np_handlers' = np_handlers \ {h}
    /\ np_resp' = IF RowsOutOfRange(Puzzles[np_puzzle], h.checkboxes) = {}
                  THEN "OK" ELSE "PANIC"
    /\ UNCHANGED <<np_state, np_checkboxes, np_puzzle, np_timer,
                   np_stale_timers, np_tasks>>
    /\ NotMultipaint

\* the sleep of the timer task of the current puzzle is over: the task
\* runs on, to its lock
timer_wakes ==
    /\ np_timer = "sleeping"
    /\ np_timer' = "running"
    /\ UNCHANGED <<np_state, np_checkboxes, np_puzzle, np_stale_timers,
                   np_tasks, np_handlers, np_resp>>
    /\ NotMultipaint

\* a timer task after its sleep, with the mutex held: Unsolved becomes
\* Failed, and in every state wait_and_start_new_puzzle is called
timer_expired ==
    /\ np_timer = "running"
    /\ TaskRoom
    /\ np_state' = IF np_state = "Unsolved" THEN "Failed" ELSE np_state
    /\ np_tasks' = wait_and_start_new_puzzle
    /\ np_timer' = "done"
    /\ UNCHANGED <<np_checkboxes, np_puzzle, np_stale_timers, np_handlers,
                   np_resp>>
    /\ NotMultipaint

\* the same for the timer task of an earlier puzzle that was past its
\* sleep when the puzzle was replaced
stale_timer_expired ==
    /\ np_stale_timers > 0
    /\ TaskRoom
    /\ np_state' = IF np_state = "Unsolved" THEN "Failed" ELSE np_state
    /\ np_tasks' = wait_and_start_new_puzzle
    /\ np_stale_timers' = np_stale_timers - 1
    /\ UNCHANGED <<np_checkboxes, np_puzzle, np_timer, np_handlers, np_resp>>
    /\ NotMultipaint

\* the puzzle is replaced: what was spawned or cloned for the one before
\* is no longer of the current puzzle
Outdated(records) == {[r EXCEPT !.current = FALSE] : r \in records}

\* JoinHandle::abort on the timer task in join_handle: a task that is
\* asleep is cancelled; a task that is past its sleep runs on to its end
StaleTimersAfterAbort ==
    IF np_timer = "running" THEN np_stale_timers + 1 ELSE np_stale_timers

\* the task from its spawning to its end. Its sleep of 10 seconds, its
\* pops of puzzle_list, its refills of the list and its fetches that fail
\* change nothing but the list; get_puzzle gives it a puzzle of the site,
\* and with the mutex held it installs the puzzle: empty checkboxes, the
\* puzzle sent on the watch channel, timer restarted, state Unsolved, a
\* new timer task in join_handle and the one that was there aborted
task_install(t) ==
    /\ np_tasks[t].pc = "pending"
    /\ StaleTimersAfterAbort <= MaxStale
    /\ \E next_puzzle \in PuzzleIds :
          /\ np_checkboxes' = EmptyBoard(next_puzzle)
          /\ np_puzzle' = next_puzzle
    /\ np_state' = "Unsolved"
    /\ np_timer' = "sleeping"
    /\ np_stale_timers' = StaleTimersAfterAbort
    /\ np_tasks' = [u \in TaskIds |->
                      IF u = t THEN NoTask
                      ELSE [np_tasks[u] EXCEPT !.current = FALSE]]
    /\ np_handlers' = Outdated(np_handlers)
    /\ UNCHANGED np_resp
    /\ NotMultipaint

\* the Multipaint service under concurrent requests
MultipaintServiceInit ==
    /\ TunnelIdle
    /\ board_in = NoBoardIn
    /\ board_out = NoBoardOut
    /\ CheckboxInit
    /\ cb_usize_bits = 64
    /\ MultipaintInit

MultipaintNext ==
    \/ \E id \in RequestIds : flag_checkbox(id)
    \/ \E id \in RequestIds : unflag_checkbox(id)
    \/ \E id \in RequestIds : multipaint_mark_checkbox(id)
    \/ \E id \in RequestIds : multipaint_unmark_checkbox(id)
    \/ \E h \in np_handlers : check_if_solved(h)
    \/ \E h \in np_handlers : write_solved(h)
    \/ timer_wakes
    \/ timer_expired
    \/ stale_timer_expired
    \/ \E t \in TaskIds : task_install(t)

MultipaintSpec == MultipaintServiceInit /\ [][MultipaintNext]_vars

\* the page of the puzzle requested while cells are flagged and puzzles
\* time out and are replaced; no cell is marked, so that a timer task is
\* at its end before the task it has spawned installs the next puzzle
RenderNext ==
    \/ \E id \in RequestIds : flag_checkbox(id)
    \/ \E id \in RequestIds : unflag_checkbox(id)
    \/ nonogram_clone
    \/ \E h \in np_handlers : nonogram_render(h)
    \/ timer_wakes
    \/ timer_expired
    \/ \E t \in TaskIds : task_install(t)

RenderSpec == MultipaintServiceInit /\ [][RenderNext]_vars

(* ------------------------- reading the records ------------------------ *)

\* k failed rounds of one connect call: attempt i fails, the schedule
\* yields 2*i seconds, and they are slept before the next attempt.
RECURSIVE FailRounds(_)
FailRounds(k) ==
    IF k = 0 THEN <<>>
    ELSE FailRounds(k - 1) \o <<<<"attempt", k>>, <<"failed", k>>,
                                <<"yield_some", 2 * k>>, <<"slept", 2 * k>>>>

\* FailRounds(k) for every k a connect call can reach
FailRoundsUpTo == [k \in 0..5 |-> FailRounds(k)]

\* what the first MaxCalls calls of a fresh closure return
FreshSchedule == Schedule(0, MaxCalls)

\* the schedule as claimed: 2*n seconds for n = 1..5, then nothing
ClaimedSchedule ==
    [n \in 1..MaxCalls |-> IF n <= 5 THEN Some(2 * n) ELSE None]

IsYield(e) == e[1] \in {"yield_some", "yield_none"}
IsSlept(e) == e[1] = "slept"
IsAuth(e) == e[1] \in {"auth_ok", "auth_rejected", "auth_error"}

\* positions of the events with tag t
At(t) == {i \in 1..Len(events) : events[i][1] = t}

Connecting == pc \in {"connect_loop", "connecting", "sleeping"}
Live == {"Authenticating", "Forwarding", "Closing"}

(* ------------------------------- claims -------------------------------- *)

\* C1: a schedule yields exactly 5 delays: the n-th call yields 2*n seconds
\* for n = 1..5 and every later call yields nothing.  Stated of the first
\* MaxCalls calls of a fresh closure, and of the calls connect really made.
C1_ScheduleIsTwoNFiveTimes ==
    /\ FreshSchedule = ClaimedSchedule
    /\ LET ys == SelectSeq(events, IsYield) IN
         \A n \in 1..Len(ys) :
            ys[n] = IF n <= 5 THEN <<"yield_some", 2 * n>>
                              ELSE <<"yield_none", 0>>

\* C1 witness: one connect call has drawn all five delays and a sixth call
\* has found the schedule exhausted.
C1_Witness ==
    /\ Len(SelectSeq(events, IsYield)) = 6
    /\ NumYields(events) = 5

\* C2: when attempt k+1 of a connect call succeeds after k failures
\* (k <= 5), the call has slept exactly k delays, the i-th of 2*i seconds
\* between failure i and attempt i+1, and authentication follows on that
\* connection and is the last thing the call does.
C2_DelaysThenAuthenticate ==
    \A i \in At("connected") :
        LET k == events[i][2] - 1 IN
        /\ k \in 0..5
        /\ SubSeq(events, 1, i)
             = FailRoundsUpTo[k] \o <<<<"attempt", k + 1>>,
                                      <<"connected", k + 1>>>>
        /\ IF i = Len(events)
           THEN pc = "authenticating"
           ELSE /\ Len(events) = i + 1
                /\ IsAuth(events[i + 1])
                /\ events[i + 1][2] = k + 1

\* C2 witness: five failures, the sixth attempt connected and authenticated.
C2_Witness ==
    /\ connect_result = "Ok"
    /\ NumFailed(events) = 5
    /\ Len(SelectSeq(events, IsSlept)) = 5

\* C3: a connect call whose sixth attempt fails gives up: it has slept
\* exactly the five delays 2, 4, 6, 8, 10, sleeps no sixth one and makes no
\* seventh attempt.
C3_GivesUpAfterFiveDelays ==
    /\ NumFailed(events) <= 6
    /\ attempts <= 6
    /\ Len(SelectSeq(events, IsSlept)) <= 5
    /\ (NumFailed(events) = 6 \/ connect_result = "GaveUp") =>
         /\ connect_result = "GaveUp"
         /\ sleeping = 0
         /\ attempts = 6
         /\ events = FailRoundsUpTo[5] \o <<<<"attempt", 6>>,
                                            <<"failed", 6>>,
                                            <<"yield_none", 0>>>>

\* C3 witness: the sixth attempt has failed.
C3_Witness ==
    /\ connect_result = "GaveUp"
    /\ NumFailed(events) = 6

\* C4: a rejected key ends the connect call at once: the rejection is the
\* call's last event, the schedule was consulted only for the transport
\* failures before it, nothing is slept and no attempt follows.
C4_AuthRejectionIsImmediate ==
    \A i \in At("auth_rejected") :
        /\ i = Len(events)
        /\ connect_result = "AuthRejected"
        /\ ~Connecting
        /\ pc # "authenticating"
        /\ sleeping = 0
        /\ reconnect_attempt = NumFailed(events)
        /\ Len(SelectSeq(events, IsYield)) = NumFailed(events)
        /\ Cardinality(At("connected")) = 1

\* C4 witness: the key was rejected on a connection made at the third
\* attempt.
C4_Witness ==
    /\ connect_result = "AuthRejected"
    /\ attempts = 3

C7_FreshSchedulePerCycle ==
    /\ cycle >= 1 => reconnect_attempt = NumFailed(events)
    /\ \A i \in At("yield_some") :
          ({j \in At("yield_some") : j < i} = {}) => events[i][2] = 2
    /\ \A i \in At("yield_none") : NumYields(events) = 5

\* C7 witness: the first iteration consumed delays and the second one has
\* drawn all five of its own.
C7_Witness ==
    /\ cycle = 2
    /\ prev_consumed >= 3
    /\ NumYields(events) = 5

\* C8: once start_forwarding has returned, by an exit code or by any of its
\* errors, close is called exactly once on that session (not before the
\* return, once after it) and the loop is then at its top again.
C8_CloseOnceAfterForwarding ==
    /\ \A s \in SessionIds :
          /\ close_attempts[s] <= 1
          /\ sessions[s] \in {"Authenticating", "Forwarding", "Closing"}
               => close_attempts[s] = 0
    /\ pc \in {"close", "loop"} /\ cycle >= 1 => fwd_result # "none"
    /\ fwd_result # "none" =>
          \/ /\ pc = "close"
             /\ sessions[cycle] = "Closing"
             /\ close_attempts[cycle] = 0
          \/ /\ pc = "loop"
             /\ ret = "none"
             /\ sessions[cycle] = "Disconnected"
             /\ close_attempts[cycle] = 1

\* C8 witness: forwarding ended on an unrecognized message, the disconnect
\* was attempted and the loop is at its top.
C8_Witness ==
    /\ fwd_result = "Err_unknown_message"
    /\ pc = "loop"
    /\ close_attempts[cycle] = 1

\* C9: an error of close is not propagated: ssh_entrypoint does not return
\* because of it, the session it was called on is Disconnected, and the
\* loop is at its top, or beyond it in the next iteration.
C9_CloseErrorNotPropagated ==
    close_result = "Err" =>
        /\ ret \in {"none", "ConnectionFailed"}
        /\ IF close_attempts[cycle] = 1
           THEN /\ pc = "loop"
                /\ ret = "none"
                /\ sessions[cycle] = "Disconnected"
           ELSE /\ cycle >= 2
                /\ sessions[cycle - 1] = "Disconnected"
                /\ close_attempts[cycle - 1] = 1

\* C9 witness: the disconnect of the first session failed and the second
\* iteration is trying to connect.
C9_Witness ==
    /\ close_result = "Err"
    /\ cycle = 2
    /\ pc = "connecting"

\* C10: at most one session is live, and while a connection attempt is
\* under way none is: every earlier session has left Forwarding, had its
\* disconnect attempted and is Disconnected.
C10_OneSessionAtATime ==
    /\ Cardinality({s \in SessionIds : sessions[s] \in Live}) <= 1
    /\ \A s \in SessionIds : sessions[s] \in Live => s = cycle
    /\ Connecting =>
          \A s \in SessionIds :
              /\ sessions[s] \notin Live
              /\ s < cycle => /\ sessions[s] = "Disconnected"
                              /\ close_attempts[s] = 1

\* C10 witness: the second session is being authenticated after the first
\* one was disconnected.
C10_Witness ==
    /\ cycle = 2
    /\ sessions[1] = "Disconnected"
    /\ close_attempts[1] = 1
    /\ sessions[2] = "Authenticating"

(* ------------------------------- C11 ----------------------------------- *)
\* C11: if the private-key file cannot be read or cannot be decoded,
\* ssh_entrypoint has returned that error and nothing of the connection
\* phase has happened: no iteration was begun, no connection attempt made,
\* no session created and no delay slept.
C11_KeyErrorReturnsBeforeConnect ==
    secret_key \in {"unreadable", "invalid"} =>
        /\ pc = "returned"
        /\ ret = IF secret_key = "unreadable"
                 THEN "FailedToOpenSecretKey" ELSE "InvalidSecretKey"
        /\ cycle = 0
        /\ attempts = 0
        /\ events = <<>>
        /\ sleeping = 0
        /\ reconnect_attempt = 0
        /\ session_task = "none"
        /\ \A s \in SessionIds : sessions[s] = "NotCreated"

\* the key file was read but its text is no key, and the function is over
C11_Witness ==
    /\ secret_key = "invalid"
    /\ pc = "returned"
    /\ ret = "InvalidSecretKey"

(* ------------------------------- C12 ----------------------------------- *)
\* C12: every forwarded-connection-open notification starts one Channel
\* Bridge task for its channel and the handler returns without waiting for
\* that connection: after the handler's step the bridge of the channel
\* runs, the session task runs on and start_forwarding is where it was.
C12_EveryOpenStartsABridge ==
    [][\A b \in BridgeIds :
          (bridge[b] = "none" /\ bridge'[b] # "none") =>
              /\ bridge'[b] = "idle"
              /\ session_task' = "running"
              /\ UNCHANGED <<pc, sessions, chan_closed>>]_vars

(* ------------------------------- C13 ----------------------------------- *)
\* C13: a step in which one running bridge fails (panics) or ends changes
\* nothing of any other bridge or its channel, and nothing of the session:
\* the session task, the session's state and the place of ssh_entrypoint
\* stay as they were.
C13_BridgeFailureIsIsolated ==
    [][\A b \in BridgeIds :
          (bridge[b] \in Running /\ bridge'[b] \in {"panicked", "ended"}) =>
              /\ \A o \in BridgeIds \ {b} :
                    /\ bridge'[o] = bridge[o]
                    /\ chan_closed'[o] = chan_closed[o]
                    /\ chan_in'[o] = chan_in[o]
                    /\ served'[o] = served[o]
                    /\ chan_out'[o] = chan_out[o]
              /\ UNCHANGED <<session_task, sessions, pc, fwd_result>>]_vars

\* one bridge has panicked while another runs on an open channel and the
\* session is in Forwarding
C13_Witness ==
    /\ bridge[1] = "panicked"
    /\ bridge[2] \in Running
    /\ ~chan_closed[2]
    /\ session_task = "running"
    /\ sessions[cycle] = "Forwarding"
    /\ pc = "wait"

(* ------------------------------- C14 ----------------------------------- *)
\* C14: when the channel of a bridge has closed while a request is in
\* progress, the bridge ends normally: no step makes it panic.
C14_CloseMidRequestIsNoPanic ==
    [][\A b \in BridgeIds :
          (bridge[b] = "in_service" /\ chan_closed[b]) =>
              bridge'[b] # "panicked"]_vars

(* ------------------------------- C15 ----------------------------------- *)
\* C15 as stated: with two concurrent connections, each request in
\* service eventually completes or fails, whatever the other does.
C15_Original_EachCompletesOrFails ==
    \A b \in BridgeIds : (bridge[b] = "in_service") ~> (bridge[b] # "in_service")

\* C15 amended: the request of the connection whose answer arrives
\* completes (or fails) whatever the other connection does, also when the
\* other's answer never arrives; a request whose answer never arrives
\* completes or fails once its own channel has closed.
C15_FastCompletesSlowNeedsClose ==
    /\ (bridge[1] = "in_service") ~> (bridge[1] # "in_service")
    /\ \A b \in BridgeIds :
          (bridge[b] = "in_service" /\ chan_closed[b])
              ~> (bridge[b] # "in_service")

\* the first connection has its answer while the request of the second,
\* on an open channel, is still in service
C15_Witness ==
    /\ chan_out[1] # <<>>
    /\ bridge[1] = "idle"
    /\ bridge[2] = "in_service"
    /\ ~chan_closed[2]
    /\ chan_out[2] = <<>>

(* ------------------------------- C16 ----------------------------------- *)
\* the first n requests the remote sends on channel b
Sent(b, n) == [i \in 1..n |-> <<b, i>>]

OnlyOf(b, seq) == \A i \in 1..Len(seq) : seq[i][1] = b

\* C17: with several connections open in one session, whatever is read
\* from, given to the Router for, or written to a channel belongs to that
\* channel's connection, and a channel carries an answer only when a
\* request arrived on it.
C17_NoCrossTalk ==
    \A b \in BridgeIds :
        /\ OnlyOf(b, chan_in[b])
        /\ OnlyOf(b, served[b])
        /\ OnlyOf(b, chan_out[b])
        /\ served[b] = <<>> => chan_out[b] = <<>>

\* two connections of one session have each been answered
C17_Witness ==
    /\ chan_out[1] = <<<<1, 1>>>>
    /\ chan_out[2] = <<<<2, 1>>>>
    /\ cycle = 1

(* ------------------------------- C18 ----------------------------------- *)
\* the last step start_forwarding has taken is channel.eof()
EofSent == fwd_step # <<>> /\ fwd_step[Len(fwd_step)] = "eof"

\* C18: when start_forwarding has returned Ok, its value is the exit code
\* of the auxiliary channel: either the last message was an exit status
\* c, EOF was sent on the channel and the value is c, or the last message
\* was a close, no EOF was sent and the value is 0.  A close always gives
\* Ok(0), and an exit status always has the EOF sent.
C18_OkValueIsExitCode ==
    /\ fwd_result = "Ok" =>
          \/ /\ last_msg[1] = "ExitStatus"
             /\ fwd_code = last_msg[2]
             /\ EofSent
          \/ /\ last_msg = <<"Close", 0>>
             /\ fwd_code = 0
             /\ ~EofSent
    /\ last_msg[1] = "Close" => fwd_result = "Ok" /\ fwd_code = 0
    /\ last_msg[1] = "ExitStatus" =>
          /\ EofSent
          /\ fwd_result \in {"Ok", "Err_eof"}

\* start_forwarding has returned a nonzero exit status
C18_Witness ==
    /\ fwd_result = "Ok"
    /\ last_msg = <<"ExitStatus", MaxExitCode>>
    /\ fwd_code = MaxExitCode
    /\ MaxExitCode > 0
    /\ EofSent

(* ------------------------------- C19 ----------------------------------- *)
\* the error start_forwarding returns on what channel.wait() gave
WaitError(kind) ==
    IF kind = "None" THEN "Err_end_of_channel" ELSE "Err_unknown_message"

\* C19: when the auxiliary channel ends without a close or exit status,
\* or gives a message of another kind than data, stderr data, success,
\* close or exit status, start_forwarding returns an error and Forwarding
\* is over; the step in which start_forwarding returns an error changes
\* no bridge and no channel of a bridge.
C19_ErrorEndsSessionOnly ==
    [][/\ (last_msg' # last_msg /\ last_msg'[1] \in {"None", "Unknown"}) =>
            /\ fwd_result' = WaitError(last_msg'[1])
            /\ sessions'[cycle] = "Closing"
       /\ (fwd_result = "none" /\ fwd_result' \notin {"none", "Ok"}) =>
            /\ UNCHANGED <<bridge, chan_closed, chan_in, served, chan_out>>
            /\ pc' = "close"]_vars

\* start_forwarding has returned the error of an unknown message while a
\* bridge is serving a request on an open channel
C19_Witness ==
    /\ fwd_result = "Err_unknown_message"
    /\ last_msg = <<"Unknown", 0>>
    /\ pc = "close"
    /\ \E b \in BridgeIds : bridge[b] = "in_service" /\ ~chan_closed[b]

(* ------------------------------- C20 ----------------------------------- *)
\* C20: the Tunnel Client never hot-loops: a transport connection attempt
\* is never begun while a failure that followed the previous attempt (a
\* failed transport connection, a failed forwarding request, a session
\* that broke) has not yet been followed by a backoff delay.
C20_DelayBetweenAttemptsAfterFailure ==
    [][attempts' = attempts + 1 => ~pending_failure]_vars

(* ------------------------------- C21 ----------------------------------- *)
\* the place of a session state in the order of the Tunnel Session
SessionRank(st) ==
    CASE st = "NotCreated" -> 0
      [] st = "Authenticating" -> 1
      [] st = "Forwarding" -> 2
      [] st = "Closing" -> 3
      [] st = "Disconnected" -> 4

\* C21: a session moves through its states in order only: it is created
\* by a connection attempt, it enters Forwarding only from Authenticating
\* and Closing only from Forwarding, and it never goes back.  The
\* port-forward request is sent only on the session in Forwarding whose
\* authentication has just succeeded, at most once, and on no session
\* whose disconnect was attempted.
C21_OrderedStatesForwardAfterAuth ==
    [][/\ \A s \in SessionIds :
            sessions'[s] # sessions[s] =>
                /\ SessionRank(sessions'[s]) > SessionRank(sessions[s])
                /\ s = cycle
                /\ sessions[s] = "NotCreated" =>
                      (pc = "connecting" /\ sessions'[s] = "Authenticating")
                /\ sessions'[s] = "Forwarding" =>
                      sessions[s] = "Authenticating"
                /\ sessions'[s] = "Closing" => sessions[s] = "Forwarding"
       /\ (Len(fwd_step') > Len(fwd_step)
             /\ fwd_step'[Len(fwd_step')] = "tcpip_forward") =>
                /\ fwd_step = <<>>
                /\ sessions[cycle] = "Forwarding"
                /\ events # <<>>
                /\ events[Len(events)] = <<"auth_ok", attempts>>
                /\ connect_result = "Ok"
                /\ close_attempts[cycle] = 0]_vars

\* the first session is over and the port-forward request was sent on the
\* second
C21_Witness ==
    /\ cycle = 2
    /\ sessions[1] = "Disconnected"
    /\ sessions[2] = "Forwarding"
    /\ fwd_step = <<"tcpip_forward">>

(* ------------------------------- C22 ----------------------------------- *)
\* the cells of line where a maximal run of set cells starts
RunStarts(line) ==
    {i \in 1..Len(line) : line[i] = 1 /\ (i = 1 \/ line[i - 1] = 0)}

\* the length of the maximal run of set cells of line that starts at s
RunLength(line, s) ==
    CHOOSE l \in 1..Len(line) :
        /\ \A j \in s..(s + l - 1) : j <= Len(line) /\ line[j] = 1
        /\ s + l > Len(line) \/ line[s + l] = 0

\* the lengths of the maximal runs of set cells of line, in order
Runs(line) ==
    [k \in 1..Cardinality(RunStarts(line)) |->
        RunLength(line,
                  CHOOSE s \in RunStarts(line) :
                      Cardinality({t \in RunStarts(line) : t < s}) = k - 1)]

\* row r and column c of the board given to populate_board
RowLine(r) ==
    [c \in 1..board_in.columns |->
        board_in.solution[(r - 1) * board_in.columns + c]]
ColumnLine(c) ==
    [r \in 1..board_in.rows |->
        board_in.solution[(r - 1) * board_in.columns + c]]

\* C22: for a solution of exactly rows * columns cells populate_board
\* returns a board with one clue for every row and one for every column,
\* empty border lines included, each clue the lengths of the maximal runs
\* of set cells of its line in order, and the solution unchanged.
C22_CluesAreRunLengths ==
    (/\ board_out.status # "none"
     /\ Len(board_in.solution) = board_in.rows * board_in.columns) =>
        /\ board_out.status = "Ok"
        /\ Len(board_out.rows) = board_in.rows
        /\ Len(board_out.columns) = board_in.columns
        /\ \A r \in 1..board_in.rows : board_out.rows[r] = Runs(RowLine(r))
        /\ \A c \in 1..board_in.columns :
              board_out.columns[c] = Runs(ColumnLine(c))
        /\ board_out.solution = board_in.solution

(* ------------------------------- C23 ----------------------------------- *)
\* C23: a bridge whose channel has closed terminates; no step of
\* ssh_entrypoint (the end of start_forwarding, close, the next
\* iteration) changes the state of a bridge task; and a bridge with a
\* request in service leaves that state only with the Router's answer or
\* after its channel has closed.
C23_BridgesEndOnlyOnTheirChannel ==
    /\ \A b \in BridgeIds :
          (bridge[b] \in Running /\ chan_closed[b])
              ~> (bridge[b] \notin Running)
    /\ [][pc' # pc => bridge' = bridge]_vars
    /\ [][\A b \in BridgeIds :
            (bridge[b] = "in_service" /\ bridge'[b] # "in_service") =>
                \/ chan_closed[b]
                \/ chan_out'[b] = Append(chan_out[b],
                                         served[b][Len(served[b])])]_vars

\* the next iteration of ssh_entrypoint has begun while a bridge of the
\* session before it still has a request in service
C23_Witness ==
    /\ cycle = 2
    /\ pc = "connect_loop"
    /\ sessions[1] = "Disconnected"
    /\ \E b \in BridgeIds : bridge[b] = "in_service"

(* ------------------------------- C24 ----------------------------------- *)
\* the requests start_forwarding sends before its wait loop
SetupSteps ==
    IF request_pty
    THEN <<"tcpip_forward", "channel_open_session", "request_pty", "exec">>
    ELSE <<"tcpip_forward", "channel_open_session">>

\* the error start_forwarding returns when a request fails
StepError(step) ==
    CASE step = "tcpip_forward" -> "Err_tcpip_forward"
      [] step = "channel_open_session" -> "Err_channel_open_session"
      [] step = "request_pty" -> "Err_request_pty"
      [] step = "exec" -> "Err_exec"

\* the requests sent so far, without the EOF of the wait loop
SetupSent == SelectSeq(fwd_step, LAMBDA x : x # "eof")

\* C24: the requests of start_forwarding are sent in the order
\* port-forward, session channel, then with a command configured
\* pseudo-terminal and exec, and with none neither of the two; the wait
\* loop takes messages only after all of them; a request that fails is
\* the last one sent and start_forwarding returns its error without
\* having taken any message.
C24_StepsInOrder ==
    /\ Len(SetupSent) <= Len(SetupSteps)
    /\ SetupSent = SubSeq(SetupSteps, 1, Len(SetupSent))
    /\ (pc = "wait" \/ wait_msgs > 0 \/ last_msg # NoMsg) =>
          SetupSent = SetupSteps
    /\ \A i \in 1..Len(SetupSteps) :
          fwd_result = StepError(SetupSteps[i]) =>
              /\ Len(SetupSent) = i
              /\ wait_msgs = 0
              /\ last_msg = NoMsg
              /\ pc # "wait"
    /\ fwd_result \in {"Err_request_pty", "Err_exec"} => request_pty

\* a command is configured and the pseudo-terminal request has failed
C24_Witness ==
    /\ request_pty
    /\ fwd_result = "Err_request_pty"
    /\ fwd_step = <<"tcpip_forward", "channel_open_session", "request_pty">>

(* ------------------------------- C25 ----------------------------------- *)
\* C25: the step that takes a data message appends that message, and
\* nothing else, to standard output and leaves standard error alone; the
\* step that takes an extended-data message of type 1 does the same with
\* standard error; no other step of start_forwarding writes to either.
\* When the write fails the message is written or not, and nothing else.
C25_DataToStdoutStderrInOrder ==
    [][pc = "wait" =>
        LET n == wait_msgs + 1
            kind == last_msg'[1]
            took == wait_msgs' = n
            failed == fwd_result' \in {"Err_stdout", "Err_stderr"}
        IN  /\ (took /\ kind = "Data") =>
                  /\ stderr' = stderr
                  /\ IF failed THEN stdout' \in {stdout, Append(stdout, n)}
                               ELSE stdout' = Append(stdout, n)
            /\ (took /\ kind = "ExtendedData") =>
                  /\ stdout' = stdout
                  /\ IF failed THEN stderr' \in {stderr, Append(stderr, n)}
                               ELSE stderr' = Append(stderr, n)
            /\ ~(took /\ kind \in {"Data", "ExtendedData"}) =>
                  (stdout' = stdout /\ stderr' = stderr)]_vars

\* a data message and then a stderr message were taken and written
C25_Witness ==
    /\ stdout = <<1>>
    /\ stderr = <<2>>
    /\ pc = "wait"

(* ------------------------------- C26 ----------------------------------- *)
\* C26: the service of every bridge, which gives each request of the
\* bridge its connection metadata, was made for the originator address
\* and port of the bridge's own connection; no two connections have the
\* same metadata; and where no bridge was started nothing was dispatched.
C26_OwnOriginatorMetadata ==
    \A b \in BridgeIds :
        IF bridge[b] \in {"none", "no_task"}
        THEN conn_info[b] = NoAddr /\ served[b] = <<>>
        ELSE /\ \E a \in Addresses :
                  /\ ParsesAsIp(a)
                  /\ conn_info[b] = SocketAddr(ParseIp(a), OriginatorPort(b))
             /\ \A o \in BridgeIds \ {b} : conn_info[o] # conn_info[b]

\* two connections are open and a request was dispatched on the second
C26_Witness ==
    /\ bridge[1] \in Running
    /\ bridge[2] = "in_service"
    /\ served[2] # <<>>
    /\ conn_info[1] # conn_info[2]

(* ------------------------------- C27 ----------------------------------- *)
\* C27: whatever key the server presents, check_server_key accepts it:
\* the connection on which a key was presented goes on to authenticate,
\* and no key is ever refused.
C27_EveryHostKeyAccepted ==
    /\ host_key[2] # "refused"
    /\ host_key # NoKey =>
          /\ host_key[1] \in ServerKeys
          /\ pc = "authenticating"
          /\ sessions[cycle] = "Authenticating"
          /\ events[Len(events)] = <<"connected", attempts>>

\* the server has presented a key other than the one seen before and the
\* client authenticates
C27_Witness ==
    /\ host_key = <<"other_key", "accepted">>
    /\ pc = "authenticating"

(* ------------------------------- C28 ----------------------------------- *)
RECURSIVE SumSlept(_)
\* seconds slept in the sleeps of ev that have ended
SumSlept(ev) ==
    IF ev = <<>> THEN 0
    ELSE (IF IsSlept(Head(ev)) THEN Head(ev)[2] ELSE 0) + SumSlept(Tail(ev))

\* seconds of backoff sleep of the current connect call, the sleep in
\* progress included
TotalSlept == SumSlept(events) + sleeping

InConnect == pc \in {"connect_loop", "connecting", "sleeping",
                     "authenticating"}

\* C28: a connect call makes at most 6 connection attempts and sleeps at
\* most 30 seconds in all; it begins with an attempt, and every sleep
\* follows a failed attempt and the delay drawn for it; and the call
\* comes to an end.
C28_ConnectBoundedAndTerminates ==
    /\ [](/\ attempts <= 6
          /\ TotalSlept <= 30
          /\ events # <<>> => events[1] = <<"attempt", 1>>
          /\ sleeping > 0 =>
                /\ Len(events) >= 3
                /\ events[Len(events)] = <<"yield_some", sleeping>>
                /\ events[Len(events) - 1] = <<"failed", attempts>>
          /\ \A i \in At("slept") :
                /\ i >= 4
                /\ events[i - 1] = <<"yield_some", events[i][2]>>
                /\ events[i - 2][1] = "failed")
    /\ InConnect ~> ~InConnect

\* a connect call has made 6 attempts and slept 30 seconds
C28_Witness ==
    /\ attempts = 6
    /\ TotalSlept = 30
    /\ pc = "connecting"

(* ------------------------------- C29 ----------------------------------- *)
\* C29: an error of the authentication exchange ends the connect call at
\* once: it is the call's last event, connect has returned it, the
\* schedule was consulted only for the transport failures before it,
\* nothing is slept and no connection is made after it.
C29_AuthErrorIsImmediate ==
    (connect_result = "AuthError" \/ At("auth_error") # {}) =>
        /\ connect_result = "AuthError"
        /\ events # <<>>
        /\ events[Len(events)] = <<"auth_error", attempts>>
        /\ pc = "returned"
        /\ ret = "ConnectionFailed"
        /\ sleeping = 0
        /\ reconnect_attempt = NumFailed(events)
        /\ Len(SelectSeq(events, IsYield)) = NumFailed(events)
        /\ Cardinality(At("connected")) = 1
        /\ sessions[cycle] = "Disconnected"

\* the exchange failed on a connection made at the second attempt
C29_Witness ==
    /\ connect_result = "AuthError"
    /\ attempts = 2
    /\ NumFailed(events) = 1

(* ------------------------------- C30 ----------------------------------- *)
\* C30: a forwarded-connection open with an originator address that is
\* no IP address, or an originator port above 65535, starts no bridge and
\* touches nothing else: the session task runs on, the session stays as
\* it was, and the other bridges and their channels are left alone.
C30_MalformedOpenAffectsOnlyItself ==
    [][\A b \in BridgeIds :
          (bridge[b] = "none" /\ bridge'[b] = "no_task") =>
              /\ session_task' = "running"
              /\ sessions' = sessions
              /\ \A o \in BridgeIds \ {b} :
                    /\ bridge'[o] = bridge[o]
                    /\ chan_closed'[o] = chan_closed[o]]_vars

(* ------------------------------- C38 ----------------------------------- *)
\* the cells the nested loops of populate_board read: row * columns + column
\* for every row and column of the board
CellAccesses ==
    {row * board_in.columns + column :
        row \in 0..(board_in.rows - 1),
        column \in 0..(board_in.columns - 1)}

\* C38: populate_board returns an error and no board whenever the number
\* of solution bits differs from rows * columns, and whenever it returns a
\* board every cell it read, row * columns + column, is inside the solution.
C38_SizeMismatchIsError ==
    /\ (/\ board_out.status # "none"
        /\ Len(board_in.solution) # board_in.rows * board_in.columns) =>
           board_out = InvalidBoardSize
    /\ board_out.status = "Ok" =>
           \A i \in CellAccesses : i < Len(board_in.solution)

\* a call with one bit too many has returned the error
C38_Witness ==
    /\ board_out.status = "Err"
    /\ board_in.rows = MaxRows
    /\ board_in.columns = MaxCols
    /\ Len(board_in.solution) = MaxRows * MaxCols + 1

(* ------------------------------- C36 ----------------------------------- *)
\* the ids of the 20x20 grid
InGrid(id) == id < CHECKBOX_WIDTH * CHECKBOX_HEIGHT

\* the step is the return of the mark or unmark call h
CheckboxReturns(h) ==
    /\ h \in cb_handlers
    /\ h.pc = "locked"
    /\ h.op \in {"mark", "unmark"}
    /\ cb_handlers' = cb_handlers \ {h}

\* C36: in the Checkboxes service mark_checkbox and unmark_checkbox return
\* NOT_FOUND and leave every checkbox unchanged for every id outside the
\* 20x20 grid (id >= 400), and no stored bit of index 400 or more is ever
\* set.
C36_OutsideGridIsNotFound ==
    [][/\ \A h \in CheckboxHandlers :
            (CheckboxReturns(h) /\ ~InGrid(h.id)) =>
                /\ cb_resp'.status = "NOT_FOUND"
                /\ cb_checkboxes' = cb_checkboxes
       /\ \A i \in cb_checkboxes' : InGrid(i)]_vars

(* ------------------------------- C37 ----------------------------------- *)
\* C37: in the Checkboxes service, for an id of the grid mark_checkbox
\* sets exactly that checkbox and unmark_checkbox clears exactly it, all
\* other checkboxes unchanged (so a repeated request changes nothing);
\* the calls exclude each other, and every checkbox of the grid has the
\* value of the latest request applied to it.
C37_ExactlyTheAddressedCheckbox ==
    [][/\ \A h \in CheckboxHandlers :
            (CheckboxReturns(h) /\ InGrid(h.id)) =>
                /\ cb_resp'.status = "OK"
                /\ cb_checkboxes' =
                       IF h.op = "mark"
                       THEN cb_checkboxes \cup {h.id}
                       ELSE cb_checkboxes \ {h.id}
                /\ \A i \in CheckboxIds \ {h.id} : cb_last'[i] = cb_last[i]
       /\ Cardinality({h \in cb_handlers' : h.pc = "locked"}) <= 1
       /\ \A i \in CheckboxIds :
            InGrid(i) => (i \in cb_checkboxes' <=> cb_last'[i] = "mark")]_vars

\* a checkbox was marked and then unmarked while another stayed marked,
\* with two further requests (one a repeated mark) waiting for the mutex
C37_Witness ==
    /\ cb_last[0] = "unmark"
    /\ cb_checkboxes = {CHECKBOX_WIDTH * CHECKBOX_HEIGHT - 1}
    /\ cb_resp = [op |-> "unmark", id |-> 0, status |-> "OK", checked |-> {}]
    /\ cb_handlers =
           {[op |-> "mark", id |-> CHECKBOX_WIDTH * CHECKBOX_HEIGHT - 1,
             pc |-> "lock"],
            [op |-> "unmark", id |-> CHECKBOX_WIDTH * CHECKBOX_HEIGHT - 1,
             pc |-> "lock"]}

(* ------------------------------- C31 ----------------------------------- *)
\* the step is the end of a wait_and_start_new_puzzle task: a puzzle is
\* installed
Installs ==
    \E t \in TaskIds : np_tasks[t].pc = "pending" /\ np_tasks'[t].pc = "none"

\* the calls that end in the step
ReturningHandlers == {h \in np_handlers : write_solved(h)}

\* C31: in the Multipaint service the state becomes Solved only from
\* Unsolved and only while the current checkboxes match the solution of
\* the current puzzle; Solved is never written over Failed, over a board
\* that no longer matches, or onto a puzzle started after the check.
C31_SolvedOnlyWhileSolved ==
    [][(np_state' = "Solved" /\ np_state # "Solved") =>
          /\ np_state = "Unsolved"
          /\ NoWrongSquares(Puzzles[np_puzzle].solution, np_checkboxes)
          /\ \A h \in ReturningHandlers : h.current]_vars

(* ------------------------------- C32 ----------------------------------- *)
\* the pending tasks spawned for the puzzle that is current
PendingForCurrent ==
    {t \in TaskIds : np_tasks[t].pc = "pending" /\ np_tasks[t].current}

\* C32: in the Multipaint service each puzzle ends once and each end
\* schedules one new-puzzle task: never are two wait_and_start_new_puzzle
\* tasks pending for the same puzzle, and a puzzle is replaced only by
\* the task of its own end, never by a task left from an earlier puzzle.
C32_OneNewPuzzleTaskPerPuzzle ==
    [][/\ Cardinality(PendingForCurrent') <= 1
       /\ \A t \in TaskIds : task_install(t) => np_tasks[t].current]_vars

(* ------------------------------- C33 ----------------------------------- *)
\* C33: in the Multipaint service every handler uses checkboxes and a
\* puzzle of the same generation: the checkboxes it has cloned are as
\* many as rows*columns of the puzzle it then reads, so the page is
\* rendered without an index out of range and the solved check compares
\* the checkboxes with a solution of their length.
C33_CheckboxesAndPuzzleOfOneGeneration ==
    [][\A h \in np_handlers :
          (check_if_solved(h) \/ nonogram_render(h)) =>
              /\ Len(h.checkboxes) = Cells(np_puzzle)
              /\ np_resp' # "PANIC"]_vars

(* ------------------------------- C34 ----------------------------------- *)
\* the cells the step changes, and the change of one
ChangedCells ==
    {i \in 1..Len(np_checkboxes) : np_checkboxes'[i] # np_checkboxes[i]}
CellChange(i) == <<np_checkboxes[i], np_checkboxes'[i]>>

\* what a request for `id` may do to the cells
RequestChanges(id, transitions) ==
    IF id >= Len(np_checkboxes)
    THEN np_resp' = "NOT_FOUND" /\ np_checkboxes' = np_checkboxes
    ELSE \/ np_checkboxes' = np_checkboxes
         \/ /\ np_state = "Unsolved"
            /\ ChangedCells = {id + 1}
            /\ CellChange(id + 1) \in transitions

\* C34: in the Multipaint service a request changes a cell only while
\* the state is Unsolved, only the addressed cell, and only flag Empty to
\* Flagged, unflag Flagged to Empty, mark Empty or Flagged to Marked,
\* unmark Marked to Empty; with an id outside the board it returns
\* NOT_FOUND and changes nothing; while the state is Solved or Failed no
\* request changes any cell.
C34_CellTransitions ==
    [][/\ ~Installs =>
            /\ Len(np_checkboxes') = Len(np_checkboxes)
            /\ ChangedCells # {} => /\ np_state = "Unsolved"
                                    /\ Cardinality(ChangedCells) = 1
       /\ \A id \in RequestIds :
            /\ flag_checkbox(id) =>
                   RequestChanges(id, {<<"Empty", "Flagged">>})
            /\ unflag_checkbox(id) =>
                   RequestChanges(id, {<<"Flagged", "Empty">>})
            /\ multipaint_mark_checkbox(id) =>
                   RequestChanges(id, {<<"Empty", "Marked">>,
                                       <<"Flagged", "Marked">>})
            /\ multipaint_unmark_checkbox(id) =>
                   RequestChanges(id, {<<"Marked", "Empty">>})]_vars

\* a puzzle of two cells has failed with one cell flagged and the other
\* marked, and a request for a cell outside it was answered NOT_FOUND
C34_Witness ==
    /\ np_state = "Failed"
    /\ np_checkboxes = <<"Flagged", "Marked">>
    /\ np_resp = "NOT_FOUND"

(* ------------------------------- C35 ----------------------------------- *)
\* the step is the timer task of the current puzzle at its end
TimerExpires == np_timer = "running" /\ np_timer' = "done"

\* C35: in the Multipaint service the expiry of a puzzle's timer while
\* the state is Unsolved makes the state Failed, and the install of a new
\* puzzle leaves the state Unsolved, all cells Empty, the timer restarted
\* and the timer task of the puzzle before aborted: no timer task but
\* the new one is left to act.
C35_InstallAbortsPreviousTimer ==
    [][/\ (TimerExpires /\ np_state = "Unsolved") => np_state' = "Failed"
       /\ Installs =>
            /\ np_state' = "Unsolved"
            /\ \A i \in 1..Len(np_checkboxes') : np_checkboxes'[i] = "Empty"
            /\ np_timer' = "sleeping"
            /\ np_stale_timers' = 0]_vars

====
